---- MODULE Spec2Model ----
(***************************************************************************)
(* Safety-metrics pipeline of trustplacev3 (src/lib/safety-metrics).       *)
(*                                                                         *)
(* The module holds one state machine per pipeline stage; each stage has   *)
(* its own specification over the shared variable tuple:                   *)
(*   SpecLink     update_accommodation_safety_scores (POI linker)          *)
(*   SpecMetrics  calculate_metrics (neighbor resolution + aggregation)    *)
(*   SpecScore    calculate_safety_score (pure function)                   *)
(*   SpecMap      process_crime_data, coordinate-to-region mapping loop    *)
(*   SpecId       the id of a metric record over several runs              *)
(*   SpecPersist  upload_metrics and the RPC loop of the score update      *)
(*   SpecMain     main, with the mapping loop of process_crime_data        *)
(*   SpecConfig   calculate_metrics under incomplete code mappings         *)
(*   SpecNormalize  process_crime_data, cleaning and datetime parsing      *)
(*   SpecFetchLive  the fetch loops, under weak fairness                   *)
(*   SpecCensus   CensusHelper.get_block_groups_batch and its workers      *)
(*   SpecSteps    main, steps 5 and 6 (upload and score update)            *)
(*   SpecQuery    the POI linker against an index larger than the query    *)
(*                                                                         *)
(* Numbers: Python floats are modelled as exact fixed-point rationals.     *)
(* Optional values (Python None) are modelled as sequences: None is <<>>   *)
(* and a present value v is <<v>>.                                         *)
(***************************************************************************)
EXTENDS Integers, Sequences, FiniteSets, TLC

VARIABLES
    \* ---- POI linker (update_accommodation_safety_scores) ----
    lk_variant,        \* which source file runs: "refactored" or "city"
    lk_pc,             \* position in the function
    safety_metrics,    \* table safety_metrics of the scope (set of rows)
    acc_table,         \* table accommodations of the scope (sequence of rows)
    metrics_df,        \* metrics_df after cleaning
    accommodations,    \* the fetched accommodation list
    acc_i,             \* loop index into accommodations (1-based, next to do)
    updates_to_make,   \* the update entries built so far
    stale_cands,       \* city variant: valid_metrics_with_dist left by an
                       \* earlier iteration (<<>> = name not bound yet)
    upd_i,             \* offset of the next update batch (0-based)
    sent_batches,      \* batches handed to RPC update_accommodations_batch
    total_failed_batches,
    \* ---- calculate_metrics ----
    cm_variant,        \* "refactored" (same formulas as city) or "la"
    cm_pc,             \* "neighbors", "metrics" or "done"
    processed_df,      \* the processed incidents (sequence of rows)
    nb_i,              \* offset of the next neighbor chunk (0-based)
    neighbor_cache,    \* block pk -> set of neighbor pks
    nb_requests,       \* the chunks requested so far, with their outcome
    failed_neighbor_batches,
    metric_i,          \* index of the next metric type to process
    results,           \* metric_type -> set of metric records
    CITY_SPECIFIC_MAPPINGS,  \* city id -> metric type -> crime codes, as
                       \* load_global_config left it
    \* ---- calculate_safety_score ----
    sc_pc, sc_variant, sc_w1, sc_w2, sc_score1, sc_score2,
    \* ---- process_crime_data: coordinate-to-block mapping ----
    mp_pc,             \* "mapping", "merged" or "aborted"
    coordinates_rpc,   \* the coordinates, each with the block the RPC finds
    mp_i,              \* offset of the next chunk (0-based)
    all_block_data,    \* accumulated RPC results
    mp_outcomes,       \* outcome of each chunk requested so far
    failed_batches,
    \* ---- stable metric ids over several runs ----
    id_run,            \* number of the current run
    id_now,            \* clock of the current run (created_at)
    id_records,        \* records computed by all runs so far
    \* ---- upload_metrics and the tables it and the score update write ----
    up_pc,             \* "start", "insert", "update" or "done"
    up_test_mode,      \* test_mode
    store,             \* table safety_metrics, all scopes (set of rows)
    up_prior,          \* the scope's rows in the table when the run began
    all_metrics,       \* the records to upload (sequence)
    up_i,              \* offset of the next insert batch (0-based)
    up_log,            \* the table requests issued by this execution
    total_inserted,
    total_failed_records,
    up_first,          \* after a second execution began: the requests of
                       \* the first one and the store it left; else None
    \* ---- the RPC loop of the score update and the table it writes ----
    au_pc,             \* "rpc" or "done"
    acc_prior,         \* acc_scores when the first execution began
    acc_scores,        \* the score column of table accommodations, by id
    acc_updates,       \* updates_to_make of the execution
    au_i,              \* offset of the next update batch (0-based)
    au_log,            \* the RPC calls issued by this execution
    au_failed_batches, \* total_failed_batches
    au_first,          \* after a second execution began: the calls of the
                       \* first one and the column it left; else None
    \* ---- main ----
    mn_pc,             \* "load", "fetch", "process", "mapping", "calculate",
                       \* "upload" or "done"
    mn_definitions,    \* METRIC_DEFINITIONS as load_global_config finds it
    raw_crime_data,    \* what fetch_crime_data returns (sequence of records)
    mn_stages,         \* the steps of main entered so far
    mn_exit,           \* how main ended: "return", "exit" or "completed"
    \* ---- process_crime_data: cleaning and datetime parsing ----
    nz_pc,             \* "clean", "datetime", "filter" or "done"; after an
                       \* early return "no_coordinates" or "no_datetime"
    dataset_id,        \* city_config['crime_data']['dataset_id']
    time_filter_hours, \* metric_info.get('time_filter') of the metric
    nz_raw,            \* raw_crime_data after renaming (sequence of records)
    nz_df,             \* df: the rows left, each with its position in nz_raw
    metric_crimes_df,  \* positions of the rows left by the time filter
    \* ---- the fetching loops and the retries of the HTTP session ----
    ft_kind,           \* "la" (fetch_crime_data of the LA variant),
                       \* "pagination" (metrics fetch of the score update) or
                       \* "session" (one GET through the CensusHelper session)
    ft_pc,             \* "fetching", "sleeping", "done" or "raised"
    ft_remote,         \* rows the remote endpoint holds (records_to_fetch)
    ft_offset,         \* offset of the next page
    ft_fetched,        \* rows fetched so far
    ft_attempts,       \* session: GET attempts made for the request
    \* ---- CensusHelper ----
    ch_pc,             \* the submitting thread: "idle", "pool" or "returned"
    ch_call,           \* number of the current get_block_groups_batch call
    ch_coordinates,    \* the coordinates argument of the calls
    to_fetch,          \* coordinates not yet handed to a worker
    ch_workers,        \* worker -> None or its _fetch_single_location call
    _block_group_cache,   \* key -> block group id
    _failed_locations,    \* set of keys
    last_api_call,
    ch_now,            \* the clock (time.time())
    ch_requests,       \* the GET requests issued: key, start time, call
    ch_results,        \* results of the current call
    \* ---- main, steps 5 and 6 ----
    test_mode,         \* the --test-mode argument of main
    mn_step,           \* "step5", "step6", "updating" or "done"
    \* ---- POI linker, one accommodation against a large index ----
    qr_pc,             \* "query", "select" or "done"
    qr_df,             \* metrics_df, the rows of the index
    qr_pos,            \* position of the accommodation
    qr_indices,        \* the rows metric_tree.query returned
    qr_selected,       \* closest_metrics_by_type
    qr_inferred,       \* inferred_block_pk
    qr_entry           \* the update entry appended, or None

lkVars == <<lk_variant, lk_pc, safety_metrics, acc_table, metrics_df,
            accommodations, acc_i, updates_to_make, stale_cands, upd_i,
            sent_batches, total_failed_batches>>
cmVars == <<cm_variant, cm_pc, processed_df, nb_i, neighbor_cache,
            nb_requests, failed_neighbor_batches, metric_i, results,
            CITY_SPECIFIC_MAPPINGS>>
scVars == <<sc_pc, sc_variant, sc_w1, sc_w2, sc_score1, sc_score2>>
mpVars == <<mp_pc, coordinates_rpc, mp_i, all_block_data, mp_outcomes,
            failed_batches>>
idVars == <<id_run, id_now, id_records>>
upVars == <<up_pc, up_test_mode, store, up_prior, all_metrics, up_i, up_log,
            total_inserted, total_failed_records, up_first>>
auVars == <<au_pc, acc_prior, acc_scores, acc_updates, au_i, au_log,
            au_failed_batches, au_first>>
mnVars == <<mn_pc, mn_definitions, raw_crime_data, mn_stages, mn_exit>>
nzVars == <<nz_pc, dataset_id, time_filter_hours, nz_raw, nz_df,
            metric_crimes_df>>

ftVars == <<ft_kind, ft_pc, ft_remote, ft_offset, ft_fetched, ft_attempts>>
chVars == <<ch_pc, ch_call, ch_coordinates, to_fetch, ch_workers,
            _block_group_cache, _failed_locations, last_api_call, ch_now,
            ch_requests, ch_results>>

tmVars == <<test_mode, mn_step>>
qrVars == <<qr_pc, qr_df, qr_pos, qr_indices, qr_selected, qr_inferred, qr_entry>>
vars == <<lkVars, cmVars, scVars, mpVars, idVars, upVars, auVars, mnVars,
          nzVars, ftVars, chVars, tmVars, qrVars>>

None == <<>>
Some(v) == <<v>>

Abs(x) == IF x < 0 THEN 0 - x ELSE x
Min(a, b) == IF a < b THEN a ELSE b
Max(a, b) == IF a > b THEN a ELSE b

RECURSIVE SumSet(_, _)
\* sum(f[x] for x in S)
SumSet(f, S) ==
    IF S = {} THEN 0
    ELSE LET x == CHOOSE y \in S : TRUE IN f[x] + SumSet(f, S \ {x})

(***************************************************************************)
(* Bounds and program constants of the POI linker                          *)
(***************************************************************************)
MaxMetrics == 2         \* rows in safety_metrics
MaxAcc == 2             \* rows in accommodations
ScoreScale == 2         \* a score s stands for s / ScoreScale (0..10)
UpdateBatchSize == 1    \* ACCOMMODATION_UPDATE_BATCH_SIZE, scaled down

MAX_ACCOMMODATION_METRIC_DISTANCE_KM == 4
k_neighbors == 50

\* METRIC_DEFINITIONS.keys(): the metric types the current configuration
\* defines (required_metric_types_set / REQUIRED_METRIC_TYPES).
METRIC_DEFINITIONS == {"night", "vehicle"}
\* metric_type values a stored row can carry: the defined ones and one left
\* behind by an earlier configuration.
StoredTypes == METRIC_DEFINITIONS \cup {"legacy"}

\* Coordinates are positions in km along one meridian.
MetricPositions == {0, 4}
AccPositions == {2, 9}

\* A stored score: a number (in 1/ScoreScale units) or SQL NULL.
ScoreVals == {1, 10 * ScoreScale}
StoredScores == {Some(s) : s \in ScoreVals} \cup {None}

\* The record id is uuid5(city:block:type), so a scope holds at most one row
\* per (block, metric_type); a block is identified here by the position of
\* its incident centroid.
MetricRows == [metric_type : StoredTypes, score : StoredScores,
               census_block_pk : MetricPositions, pos : MetricPositions]

MetricTables ==
    {T \in SUBSET {r \in MetricRows : r.census_block_pk = r.pos} :
        /\ Cardinality(T) <= MaxMetrics
        /\ \A a, b \in T :
              (a.metric_type = b.metric_type /\ a.pos = b.pos) => a = b}

\* An accommodation row: "ok" has finite coordinates at pos; "badcoord" makes
\* float() raise ValueError/TypeError; "nan" has a NaN coordinate (float()
\* succeeds, the KDTree query raises); "raises" makes the loop body raise an
\* exception that is neither ValueError nor TypeError.
AccRows == [kind : {"ok"}, pos : AccPositions]
    \cup [kind : {"badcoord", "nan", "raises"}, pos : {0}]

RECURSIVE SeqsUpTo(_, _)
SeqsUpTo(S, n) ==
    IF n = 0 THEN {<<>>}
    ELSE LET shorter == SeqsUpTo(S, n - 1)
         IN shorter \cup {Append(s, x) : s \in {t \in shorter : Len(t) = n - 1}, x \in S}

(***************************************************************************)
(* Helpers of the POI linker                                               *)
(***************************************************************************)
\* calculate_distance_km: great-circle distance; for two points of one
\* meridian it is r_km * |dlat|, i.e. the difference of the km positions.
calculate_distance_km(p, q) == Abs(p - q)

\* Python 3 round(): to the nearest integer, halves to the even neighbour.
\* Rounds num/den for num >= 0, den > 0.
PyRound(num, den) ==
    LET q == num \div den
        r == num % den
    IN IF 2 * r < den THEN q
       ELSE IF 2 * r > den THEN q + 1
       ELSE IF q % 2 = 0 THEN q ELSE q + 1

\* Rows that pass the fetch filter and the cleaning (dropna).
CleanMetrics(variant, rows) ==
    IF variant = "refactored"
    THEN {r \in rows : r.score # None}
    ELSE rows

\* valid_metrics_in_radius for an accommodation at position p: the K nearest
\* rows of the index (all rows when there are at most k_neighbors) whose
\* recomputed distance is within the radius.
valid_metrics_in_radius(df, p) ==
    IF Min(k_neighbors, Cardinality(df)) > 0
    THEN {m \in df : calculate_distance_km(p, m.pos)
                        <= MAX_ACCOMMODATION_METRIC_DISTANCE_KM}
    ELSE {}

TypesIn(cands) == {m.metric_type : m \in cands}

\* Mutant of NearestOfType: any row of the type.
AnyOfType(cands, p, t) == {m \in cands : m.metric_type = t}

\* min(metrics_list, key=distance) over the rows of one type: a row of
\* minimum distance (which one among equals depends on the order the KDTree
\* returned them in).
NearestOfType(cands, p, t) ==
    {m \in cands :
        /\ m.metric_type = t
        /\ \A o \in cands : o.metric_type = t =>
              calculate_distance_km(p, m.pos) <= calculate_distance_km(p, o.pos)}

\* The possible outcomes of grouping by type and taking each group's minimum.
GroupWinners(cands, p) ==
    {w \in [TypesIn(cands) -> cands] :
        \A t \in TypesIn(cands) : w[t] \in NearestOfType(cands, p, t)}

\* valid_metrics_in_radius[0] after the stable sort by distance: a row of
\* globally minimum distance; it is the winner of its own type.
ClosestOverall(w, p) ==
    {m \in {w[t] : t \in DOMAIN w} :
        \A t \in DOMAIN w :
            calculate_distance_km(p, m.pos) <= calculate_distance_km(p, w[t].pos)}

(***************************************************************************)
(* Update entries                                                          *)
(***************************************************************************)
UpdateEntry(acc_id, overall, block, found) ==
    [id |-> acc_id, overall_safety_score |-> overall,
     census_block_id |-> block, safety_metric_types_found |-> found]

\* refactored 1248-1260: no metric within the radius.
NoCandidateEntry(acc_id) == UpdateEntry(acc_id, None, None, Some(0))

\* refactored 1375-1385: placeholder when the calculation raises.
PlaceholderEntry(acc_id) == UpdateEntry(acc_id, None, None, None)

\* closest_metrics_by_type restricted to the required types (refactored
\* 1290-1291).
RequiredOnly(w) == [t \in (DOMAIN w) \cap METRIC_DEFINITIONS |-> w[t]]

\* Mutant of OverallOf: the mean taken over all required types, a missing
\* type counting as 0.
OverallOfAllRequired(w, ts) ==
    PyRound(10 * SumSet([t \in ts |-> w[t].score[1]], ts),
            ScoreScale * Cardinality(METRIC_DEFINITIONS))

\* int(round(average * 10)) of the scores of the types in ts; the scores are
\* in 1/ScoreScale units.
OverallOf(w, ts) ==
    PyRound(10 * SumSet([t \in ts |-> w[t].score[1]], ts),
            ScoreScale * Cardinality(ts))

\* Mutant of ScoreEntry: overall_score starts at 0 instead of None.
ScoreEntryZeroDefault(acc_id, inferred, closest) ==
    LET num_found_types == Cardinality(DOMAIN closest)
        valid == {t \in DOMAIN closest : closest[t].score # None}
    IN UpdateEntry(acc_id,
                   IF num_found_types > 0 /\ valid # {}
                   THEN Some(OverallOf(closest, valid)) ELSE Some(0),
                   inferred,
                   IF num_found_types > 0 /\ valid # {}
                   THEN Some(num_found_types) ELSE None)

\* 4d/4e of the refactored variant (1306-1370): closest is
\* closest_metrics_by_type, inferred the inferred block pk.
ScoreEntry(acc_id, inferred, closest) ==
    LET num_found_types == Cardinality(DOMAIN closest)
        valid == {t \in DOMAIN closest : closest[t].score # None}
        overall_score ==
            IF num_found_types > 0 /\ valid # {}
            THEN Some(OverallOf(closest, valid)) ELSE None
        num_final == IF num_found_types > 0 /\ valid = {} THEN 0
                     ELSE num_found_types
    IN UpdateEntry(acc_id, overall_score, inferred,
                   IF num_final > 0 THEN Some(num_final) ELSE None)

\* Steps 6/7 of the city variant (city_safety_processor.py 600-664): the
\* count is the number of valid scores.
CityScoreEntry(acc_id, inferred, closest) ==
    LET valid == {t \in DOMAIN closest : closest[t].score # None}
        overall_score ==
            IF DOMAIN closest # {} /\ valid # {}
            THEN Some(OverallOf(closest, valid)) ELSE None
        num_found_types == IF DOMAIN closest # {} THEN Cardinality(valid) ELSE 0
    IN UpdateEntry(acc_id, overall_score, inferred,
                   IF num_found_types > 0 THEN Some(num_found_types) ELSE None)

\* City variant: the score column of metrics_df. A column that holds numbers
\* and NULLs is float64 with NaN for the NULLs; a column of NULLs only keeps
\* Python None.
ScoreColumnIsNaN(df) ==
    /\ \E r \in df : r.score = None
    /\ \E r \in df : r.score # None

(***************************************************************************)
(* Actions of the POI linker                                               *)
(***************************************************************************)
LinkStart ==
    /\ lk_variant \in {"refactored", "city"}
    /\ lk_pc = "fetch_metrics"
    /\ safety_metrics \in MetricTables
    /\ acc_table \in SeqsUpTo(AccRows, MaxAcc)
    /\ metrics_df = {}
    /\ accommodations = <<>>
    /\ acc_i = 1
    /\ updates_to_make = <<>>
    /\ stale_cands = None
    /\ upd_i = 0
    /\ sent_batches = <<>>
    /\ total_failed_batches = 0

\* Step 1 (refactored 1053-1123, city 414-440): fetch and clean the scope's
\* metric rows; return when nothing is left. A failing request leaves the
\* fetched list empty.
FetchMetrics ==
    /\ lk_pc = "fetch_metrics"
    /\ \E ok \in BOOLEAN :
          LET fetched == IF ok THEN CleanMetrics(lk_variant, safety_metrics) ELSE {}
          IN /\ metrics_df' = fetched
             /\ lk_pc' = IF fetched = {} THEN "done" ELSE "fetch_acc"
    /\ UNCHANGED <<cmVars, scVars, mpVars, idVars, upVars, auVars, mnVars,
                   nzVars,
                   ftVars, chVars, tmVars, qrVars>>
    /\ UNCHANGED <<lk_variant, safety_metrics, acc_table, accommodations, acc_i,
                   updates_to_make, stale_cands, upd_i, sent_batches,
                   total_failed_batches>>

\* Step 3 (refactored 1134-1180, city 455-466): fetch the accommodations;
\* return when there are none.
FetchAccommodations ==
    /\ lk_pc = "fetch_acc"
    /\ \E ok \in BOOLEAN :
          LET fetched == IF ok THEN acc_table ELSE <<>>
          IN /\ accommodations' = fetched
             /\ lk_pc' = IF fetched = <<>> THEN "done" ELSE "loop"
    /\ UNCHANGED <<cmVars, scVars, mpVars, idVars, upVars, auVars, mnVars,
                   nzVars,
                   ftVars, chVars, tmVars, qrVars>>
    /\ UNCHANGED <<lk_variant, safety_metrics, acc_table, metrics_df, acc_i,
                   updates_to_make, stale_cands, upd_i, sent_batches,
                   total_failed_batches>>

\* The entries the refactored loop body (1196-1385) can append for the
\* accommodation acc with id acc_id: a set of sequences (<<>> = nothing
\* appended).
RefactoredBody(acc_id, acc) ==
    IF acc.kind = "badcoord" THEN {<<>>}
    ELSE IF acc.kind = "raises" THEN {<<PlaceholderEntry(acc_id)>>}
    ELSE LET cands == IF acc.kind = "nan" THEN {}
                      ELSE valid_metrics_in_radius(metrics_df, acc.pos)
         IN IF cands = {} THEN {<<NoCandidateEntry(acc_id)>>}
            ELSE {<<ScoreEntry(acc_id, Some(m0.census_block_pk), RequiredOnly(w))>> :
                     <<w, m0>> \in {x \in GroupWinners(cands, acc.pos) \X cands :
                                      x[2] \in ClosestOverall(x[1], acc.pos)}}

\* The entries the city loop body (481-670) can append. p is the position
\* valid_metrics_with_dist was computed for: this accommodation's, or, when
\* the KDTree query raised, the one an earlier iteration left behind.
CityBody(acc_id, acc) ==
    IF acc.kind \in {"badcoord", "raises"} THEN {<<>>}
    ELSE IF acc.kind = "nan" /\ stale_cands = None THEN {<<>>}   \* NameError
    ELSE LET p == IF acc.kind = "nan" THEN stale_cands[1] ELSE acc.pos
             cands == valid_metrics_in_radius(metrics_df, p)
         IN IF cands = {}
            THEN {<<CityScoreEntry(acc_id, None, << >>)>>}
            ELSE {IF ScoreColumnIsNaN(metrics_df)
                     /\ \E t \in DOMAIN w : w[t].score = None
                  THEN <<>>     \* round(nan) raises ValueError: skipped
                  ELSE <<CityScoreEntry(acc_id,
                            IF acc.kind = "nan" THEN None
                            ELSE Some(m0.census_block_pk), w)>> :
                     <<w, m0>> \in {x \in GroupWinners(cands, p) \X cands :
                                      x[2] \in ClosestOverall(x[1], p)}}

\* Step 4: one iteration of the loop over the accommodations.
ScoreAccommodation ==
    /\ lk_pc = "loop"
    /\ acc_i <= Len(accommodations)
    /\ LET acc == accommodations[acc_i]
       IN /\ \E e \in (IF lk_variant = "refactored"
                       THEN RefactoredBody(acc_i, acc)
                       ELSE CityBody(acc_i, acc)) :
                updates_to_make' = updates_to_make \o e
          /\ stale_cands' =
                IF lk_variant = "city" /\ acc.kind = "ok"
                THEN Some(acc.pos) ELSE stale_cands
    /\ acc_i' = acc_i + 1
    /\ UNCHANGED <<cmVars, scVars, mpVars, idVars, upVars, auVars, mnVars,
                   nzVars,
                   ftVars, chVars, tmVars, qrVars>>
    /\ UNCHANGED <<lk_variant, lk_pc, safety_metrics, acc_table, metrics_df,
                   accommodations, upd_i, sent_batches, total_failed_batches>>

\* End of the loop (refactored 1387-1398, city 672-714): with nothing to
\* update the refactored variant returns, the city variant runs no batch.
StartUpdates ==
    /\ lk_pc = "loop"
    /\ acc_i > Len(accommodations)
    /\ lk_pc' = IF updates_to_make = <<>> THEN "done" ELSE "upload"
    /\ UNCHANGED <<cmVars, scVars, mpVars, idVars, upVars, auVars, mnVars,
                   nzVars,
                   ftVars, chVars, tmVars, qrVars>>
    /\ UNCHANGED <<lk_variant, safety_metrics, acc_table, metrics_df,
                   accommodations, acc_i, updates_to_make, stale_cands, upd_i,
                   sent_batches, total_failed_batches>>

UpdateOutcomes == {"count", "error", "unexpected", "raise"}

\* Step 5 (refactored 1405-1439, city 716-765): one batch of the RPC loop.
SendUpdateBatch ==
    /\ lk_pc = "upload"
    /\ upd_i < Len(updates_to_make)
    /\ \E outcome \in UpdateOutcomes :
          LET batch_data == SubSeq(updates_to_make, upd_i + 1,
                               Min(upd_i + UpdateBatchSize, Len(updates_to_make)))
          IN /\ sent_batches' = Append(sent_batches, batch_data)
             /\ total_failed_batches' =
                   IF outcome = "count" THEN total_failed_batches
                   ELSE total_failed_batches + 1
    /\ upd_i' = upd_i + UpdateBatchSize
    /\ UNCHANGED <<cmVars, scVars, mpVars, idVars, upVars, auVars, mnVars,
                   nzVars,
                   ftVars, chVars, tmVars, qrVars>>
    /\ UNCHANGED <<lk_variant, lk_pc, safety_metrics, acc_table, metrics_df,
                   accommodations, acc_i, updates_to_make, stale_cands>>

FinishUpdates ==
    /\ lk_pc = "upload"
    /\ upd_i >= Len(updates_to_make)
    /\ lk_pc' = "done"
    /\ UNCHANGED <<cmVars, scVars, mpVars, idVars, upVars, auVars, mnVars,
                   nzVars,
                   ftVars, chVars, tmVars, qrVars>>
    /\ UNCHANGED <<lk_variant, safety_metrics, acc_table, metrics_df,
                   accommodations, acc_i, updates_to_make, stale_cands, upd_i,
                   sent_batches, total_failed_batches>>

LinkNext ==
    \/ FetchMetrics
    \/ FetchAccommodations
    \/ ScoreAccommodation
    \/ StartUpdates
    \/ SendUpdateBatch
    \/ FinishUpdates

LinkIdle ==
    /\ lk_variant = "refactored"
    /\ lk_pc = "done"
    /\ safety_metrics = {}
    /\ acc_table = <<>>
    /\ metrics_df = {}
    /\ accommodations = <<>>
    /\ acc_i = 1
    /\ updates_to_make = <<>>
    /\ stale_cands = None
    /\ upd_i = 0
    /\ sent_batches = <<>>
    /\ total_failed_batches = 0

(***************************************************************************)
(* Claims about the POI linker                                             *)
(***************************************************************************)
Entries == {updates_to_make[i] : i \in 1..Len(updates_to_make)}

InRadius(rows, p) ==
    {m \in rows : calculate_distance_km(p, m.pos)
                     <= MAX_ACCOMMODATION_METRIC_DISTANCE_KM}

\* C1: in every update entry built, by either variant and on every path,
\* overall_safety_score is null exactly when safety_metric_types_found is 0
\* or null.
C1_NullScoreIffNoTypes ==
    \A e \in Entries :
        (e.overall_safety_score = None)
            <=> (e.safety_metric_types_found \in {None, Some(0)})

\* C1 witness: the refactored variant has built a no-candidate entry (count
\* 0) and an entry with a score.
C1_Witness ==
    /\ lk_variant = "refactored"
    /\ \E e \in Entries : e.safety_metric_types_found = Some(0)
    /\ \E e \in Entries : e.overall_safety_score # None

\* r is an integer nearest to num/den.
NearestInteger(r, num, den) == 2 * Abs(den * r - num) <= den

\* C4: a non-null overall score of the refactored variant is the rounding of
\* 10 x the mean of the scores of one nearest in-radius row per required type
\* found (the mean over the found types only), and lies in 0..100.
C4_OverallIsRoundedMean ==
    lk_variant = "refactored" =>
        \A e \in Entries :
            e.overall_safety_score # None =>
                LET p == accommodations[e.id].pos
                    near == InRadius(metrics_df, p)
                    found == {t \in METRIC_DEFINITIONS :
                                 \E m \in near : m.metric_type = t}
                IN /\ found # {}
                   /\ e.safety_metric_types_found = Some(Cardinality(found))
                   /\ e.overall_safety_score[1] \in 0..100
                   /\ \E sel \in [found -> near] :
                         /\ \A t \in found :
                               /\ sel[t].metric_type = t
                               /\ \A o \in near : o.metric_type = t =>
                                     calculate_distance_km(p, sel[t].pos)
                                        <= calculate_distance_km(p, o.pos)
                         /\ NearestInteger(e.overall_safety_score[1],
                               10 * SumSet([t \in found |-> sel[t].score[1]], found),
                               ScoreScale * Cardinality(found))

\* C4 witness: a score computed from one found type while two are required.
C4_Witness ==
    /\ lk_variant = "refactored"
    /\ \E e \in Entries :
          /\ e.overall_safety_score # None
          /\ e.safety_metric_types_found = Some(1)
          /\ Cardinality(METRIC_DEFINITIONS) > 1

\* C7 (as claimed): the entry of an accommodation with valid coordinates and
\* no metric row within the radius has null score, null block and null
\* types-found.
C7_NoCandidateAllNull ==
    \A e \in Entries :
        (/\ accommodations[e.id].kind = "ok"
         /\ InRadius(safety_metrics, accommodations[e.id].pos) = {})
        => /\ e.overall_safety_score = None
           /\ e.census_block_id = None
           /\ e.safety_metric_types_found = None

\* C8 (as claimed): when the function ends with an empty metric index, an
\* update with a null overall score has been sent for every accommodation of
\* the scope (with valid coordinates).
C8_EmptyIndexNullsEveryPoi ==
    (lk_pc = "done" /\ metrics_df = {}) =>
        \A i \in 1..Len(acc_table) :
            acc_table[i].kind = "ok" =>
            \E k \in 1..Len(sent_batches) :
                \E j \in 1..Len(sent_batches[k]) :
                    /\ sent_batches[k][j].id = i
                    /\ sent_batches[k][j].overall_safety_score = None

\* C29: the refactored loop has appended exactly one entry for each
\* accommodation it has gone through, in fetch order: the list is as long
\* as the part of the fetched list already processed, and entry k is the one
\* of accommodation k.
C29_OneEntryPerAccommodation ==
    lk_variant = "refactored"
        => /\ Len(updates_to_make) = acc_i - 1
           /\ \A k \in 1..Len(updates_to_make) : updates_to_make[k].id = k

(***************************************************************************)
(* calculate_safety_score                                                  *)
(*                                                                         *)
(* Weighted incident counts are in quarter incidents (the neighbor weights *)
(* are 0.25 and 0.5); scores are in 1/ScoreOne.                            *)
(***************************************************************************)
ScoreOne == 10000       \* resolution of a score: ScoreOne stands for 1.0
MaxWeight == 40         \* largest weighted count (quarter incidents) tried

\* 1/SCORE_DECAY_CONSTANT_K (0.005) and 1/DECAY_CONSTANT_K (0.01)
SCORE_DECAY_CONSTANT_K_INV == 200
DECAY_CONSTANT_K_INV == 100
\* 1/NEIGHBOR_INCIDENT_WEIGHT (0.25): the unit of the weighted counts
QuartersPerIncident == 4

RECURSIVE ExpDecay(_, _)
\* math.exp(-n/d) in 1/ScoreOne, as the n-th power of exp(-1/d) ~ (d-1)/d.
ExpDecay(n, d) ==
    IF n = 0 THEN ScoreOne
    ELSE (ExpDecay(n - 1, d) * (d - 1)) \div d

\* la_safety_processor.calculate_safety_score: a step function of the
\* weighted count.
LaSafetyScore(w) ==
    LET q == QuartersPerIncident
        score == IF w <= 1 * q THEN 9
                 ELSE IF w <= 3 * q THEN 8
                 ELSE IF w <= 7 * q THEN 7
                 ELSE IF w <= 12 * q THEN 6
                 ELSE IF w <= 20 * q THEN 5
                 ELSE IF w <= 30 * q THEN 4
                 ELSE IF w <= 50 * q THEN 3
                 ELSE 2
    IN Max(0, Min(10, score)) * ScoreOne

\* Mutant of calculate_safety_score: the step function of the LA variant in
\* place of the exponential decay.
calculate_safety_score_steps(variant, w) == LaSafetyScore(w)

\* calculate_safety_score of the refactored and city variants:
\* max(0, 10 * exp(-K * max(0, w))).
calculate_safety_score(variant, w) ==
    LET safe_weighted_incidents == Max(0, w)
        k_inv == IF variant = "refactored" THEN SCORE_DECAY_CONSTANT_K_INV
                 ELSE DECAY_CONSTANT_K_INV
        score == 10 * ExpDecay(safe_weighted_incidents,
                               QuartersPerIncident * k_inv)
    IN Max(0, score)

ScoreStart ==
    /\ sc_pc = "start"
    /\ sc_variant \in {"refactored", "city"}
    /\ sc_w1 \in 0..MaxWeight
    /\ sc_w2 \in 0..MaxWeight
    /\ sc_score1 = None
    /\ sc_score2 = None

ScoreIdle ==
    /\ sc_pc = "done"
    /\ sc_variant = "refactored"
    /\ sc_w1 = 0
    /\ sc_w2 = 0
    /\ sc_score1 = None
    /\ sc_score2 = None

\* Two calls of calculate_safety_score.
ApplyScore ==
    /\ sc_pc = "start"
    /\ sc_score1' = Some(calculate_safety_score(sc_variant, sc_w1))
    /\ sc_score2' = Some(calculate_safety_score(sc_variant, sc_w2))
    /\ sc_pc' = "done"
    /\ UNCHANGED <<sc_variant, sc_w1, sc_w2>>
    /\ UNCHANGED <<lkVars, cmVars, mpVars, idVars, upVars, auVars, mnVars,
                   nzVars,
                   ftVars, chVars, tmVars, qrVars>>

ScoreNext == ApplyScore

\* C3: the score lies in [0, 10], is non-increasing in the weighted count,
\* and is exactly 10 at a weighted count of 0.
C3_ScoreRangeMonotoneTen ==
    sc_score1 # None =>
        /\ sc_score1[1] >= 0 /\ sc_score1[1] <= 10 * ScoreOne
        /\ sc_score2[1] >= 0 /\ sc_score2[1] <= 10 * ScoreOne
        /\ (sc_w1 <= sc_w2 => sc_score1[1] >= sc_score2[1])
        /\ (sc_w1 = 0 => sc_score1[1] = 10 * ScoreOne)

\* C3 witness: the score of 0 and of a larger count have been computed, and
\* the larger count scores strictly lower.
C3_Witness ==
    /\ sc_score1 # None
    /\ sc_w1 = 0
    /\ sc_w2 > 0
    /\ sc_score1[1] = 10 * ScoreOne
    /\ sc_score2[1] < sc_score1[1]

(***************************************************************************)
(* calculate_metrics                                                       *)
(***************************************************************************)
MaxIncidents == 2       \* rows of processed_df
NeighborBatchSize == 1  \* neighbor_batch_size (DEFAULT 30), scaled down

TargetCityId == 1
Blocks == {1, 2, 3}

\* Reference data of the blocks (population, housing_units), as the mapping
\* RPC returns it with every incident.
BlockPopulation == <<0, 100, 900>>
BlockHousingUnits == <<0, 100, 100>>

\* METRIC_DEFINITIONS.items() in order, and CITY_SPECIFIC_MAPPINGS[city].
MetricOrder == <<"night", "vehicle">>
CityCrimeCodes == [night |-> {"110"}, vehicle |-> {"510"}]
CrimeCodes == {"110", "510"}

\* CITY_SPECIFIC_MAPPINGS of a complete configuration, and configurations
\* with a gap: no entry for the target city, a metric type without entry,
\* a metric type with an empty code list.
DefaultMappings == (TargetCityId :> CityCrimeCodes)
MappingChoices ==
    {DefaultMappings,
     ((TargetCityId + 1) :> CityCrimeCodes),
     (TargetCityId :> [vehicle |-> {"510"}]),
     (TargetCityId :> [night |-> {"110"}, vehicle |-> {}])}

\* metric_info.get('time_filter'): the hours of day a metric counts, if any.
Hours == {2, 14}
TimeFilter == [night |-> Some({2}), vehicle |-> None]

\* Rows of processed_df: a night-time incident of the night code and an
\* incident of the vehicle code in any block, and a daytime incident of the
\* night code, which the time filter drops, in block 1.
IncidentRows ==
    {r \in [crime_code : CrimeCodes, hour : Hours, census_block_pk : Blocks] :
        \/ r.hour = (IF r.crime_code = "510" THEN 14 ELSE 2)
        \/ r.crime_code = "110" /\ r.census_block_pk = 1}

RECURSIVE UniqueInOrder(_)
\* Series.unique(): the distinct values in order of first appearance.
UniqueInOrder(seq) ==
    IF seq = <<>> THEN <<>>
    ELSE LET init == UniqueInOrder(SubSeq(seq, 1, Len(seq) - 1))
             last == seq[Len(seq)]
         IN IF \E i \in 1..Len(init) : init[i] = last THEN init
            ELSE Append(init, last)

unique_block_pks ==
    UniqueInOrder([i \in 1..Len(processed_df) |-> processed_df[i].census_block_pk])

\* The LA variant asks for one block per RPC call.
ChunkSize == IF cm_variant = "la" THEN 1 ELSE NeighborBatchSize

\* The code and time filters (2a, 2b), then
\* metric_crimes_df.groupby('census_block_pk') ... direct_incidents: the
\* number of incidents of the metric per block with at least one.
\* The codes of a metric type: city_crime_codes[metric_type] (776-791);
\* the LA variant has them in its own table.
relevant_codes(metric_type) ==
    IF cm_variant = "la" THEN CityCrimeCodes[metric_type]
    ELSE IF TargetCityId \in DOMAIN CITY_SPECIFIC_MAPPINGS
            /\ metric_type \in DOMAIN CITY_SPECIFIC_MAPPINGS[TargetCityId]
         THEN CITY_SPECIFIC_MAPPINGS[TargetCityId][metric_type]
         ELSE {}

metric_incident_map_pk(metric_type) ==
    LET rows == {i \in 1..Len(processed_df) :
                    /\ processed_df[i].crime_code \in relevant_codes(metric_type)
                    /\ TimeFilter[metric_type] # None =>
                          processed_df[i].hour \in TimeFilter[metric_type][1]}
        pks == {processed_df[i].census_block_pk : i \in rows}
    IN [b \in pks |->
          Cardinality({i \in rows : processed_df[i].census_block_pk = b})]

\* population_density_proxy of process_crime_data, in whole units.
population_density_proxy(b) ==
    IF BlockHousingUnits[b] > 0
    THEN BlockPopulation[b] \div BlockHousingUnits[b] ELSE 0

\* Twice the density_factor of the LA variant: min(max(d / 3, 0.5), 2.0) for
\* d > 0, else 1.0.
DensityFactorHalves(d) ==
    IF d > 0 THEN Min(Max((2 * d) \div 3, 1), 4) ELSE 2

\* Mutant of calculate_weighted_incidents: the neighbor total is subtracted.
calculate_weighted_incidents_minus(variant, direct_incidents, neighbor_incident_map, density) ==
    QuartersPerIncident * direct_incidents
        - SumSet(neighbor_incident_map, DOMAIN neighbor_incident_map)

\* calculate_weighted_incidents, in quarter incidents. refactored/city:
\* direct + 0.25 * sum(neighbors). la: (direct + 0.5 * sum) * density_factor.
calculate_weighted_incidents(variant, direct_incidents, neighbor_incident_map, density) ==
    LET neighbor_incidents_total ==
            SumSet(neighbor_incident_map, DOMAIN neighbor_incident_map)
    IN IF variant = "la"
       THEN ((QuartersPerIncident * direct_incidents + 2 * neighbor_incidents_total)
                * DensityFactorHalves(density)) \div 2
       ELSE QuartersPerIncident * direct_incidents + neighbor_incidents_total

\* Mutant of stable_metric_id: the time of the run is part of the id.
stable_metric_id_timestamped(target_city_id, current_block_pk, metric_type) ==
    <<"uuid5", target_city_id, ":", current_block_pk, ":", metric_type, id_now>>

\* id_string = f"{target_city_id}:{current_block_pk}:{metric_type}";
\* uuid5(NAMESPACE_DNS, id_string) is modelled as the string it hashes.
stable_metric_id(target_city_id, current_block_pk, metric_type) ==
    <<"uuid5", target_city_id, ":", current_block_pk, ":", metric_type>>

\* neighbor_cache.get(current_block_pk, [])
NeighborPks(b) == IF b \in DOMAIN neighbor_cache THEN neighbor_cache[b] ELSE {}

\* Mutant of NeighborIncidentMap: a neighbor counts with its incidents of
\* every type.
NeighborIncidentMapAllTypes(b, incident_map) ==
    LET with_incidents == {processed_df[i].census_block_pk : i \in 1..Len(processed_df)}
    IN [n \in NeighborPks(b) \cap with_incidents |->
          Cardinality({i \in 1..Len(processed_df) :
                          processed_df[i].census_block_pk = n})]

\* neighbor_incident_map: the neighbors that have incidents for this metric.
NeighborIncidentMap(b, incident_map) ==
    [n \in NeighborPks(b) \cap DOMAIN incident_map |-> incident_map[n]]

\* The record of block b for one metric type (2d of calculate_metrics).
MetricRecord(metric_type, b, incident_map) ==
    LET direct_incidents == incident_map[b]
        weighted_incidents ==
            calculate_weighted_incidents(cm_variant, direct_incidents,
                NeighborIncidentMap(b, incident_map), population_density_proxy(b))
    IN [id |-> stable_metric_id(TargetCityId, b, metric_type),
        block_group_id |-> b,
        metric_type |-> metric_type,
        direct_incidents |-> direct_incidents,
        weighted_incidents |-> weighted_incidents,
        score |-> IF cm_variant = "la" THEN LaSafetyScore(weighted_incidents)
                  ELSE calculate_safety_score(cm_variant, weighted_incidents)]

MetricsStart ==
    /\ cm_variant \in {"refactored", "la"}
    /\ cm_pc = "neighbors"
    /\ processed_df \in SeqsUpTo(IncidentRows, MaxIncidents)
    /\ nb_i = 0
    /\ neighbor_cache = << >>
    /\ nb_requests = <<>>
    /\ failed_neighbor_batches = 0
    /\ metric_i = 1
    /\ results = << >>
    /\ CITY_SPECIFIC_MAPPINGS = DefaultMappings

\* The refactored variant started under any of the configurations, with
\* incidents of one block.
ConfigStart ==
    /\ cm_variant = "refactored"
    /\ cm_pc = "neighbors"
    /\ processed_df \in SeqsUpTo({r \in IncidentRows : r.census_block_pk = 1},
                                 MaxIncidents)
    /\ nb_i = 0
    /\ neighbor_cache = << >>
    /\ nb_requests = <<>>
    /\ failed_neighbor_batches = 0
    /\ metric_i = 1
    /\ results = << >>
    /\ CITY_SPECIFIC_MAPPINGS \in MappingChoices

MetricsIdle ==
    /\ cm_variant = "refactored"
    /\ cm_pc = "done"
    /\ processed_df = <<>>
    /\ nb_i = 0
    /\ neighbor_cache = << >>
    /\ nb_requests = <<>>
    /\ failed_neighbor_batches = 0
    /\ metric_i = 1
    /\ results = << >>
    /\ CITY_SPECIFIC_MAPPINGS = << >>

\* processed_df is None or empty: return {} (686-699).
ReturnNoData ==
    /\ cm_pc = "neighbors"
    /\ processed_df = <<>>
    /\ cm_pc' = "done"
    /\ UNCHANGED CITY_SPECIFIC_MAPPINGS
    /\ UNCHANGED <<cm_variant, processed_df, nb_i, neighbor_cache, nb_requests,
                   failed_neighbor_batches, metric_i, results>>
    /\ UNCHANGED <<lkVars, scVars, mpVars, idVars, upVars, auVars, mnVars,
                   nzVars,
                   ftVars, chVars, tmVars, qrVars>>

NeighborOutcomes == {"data", "error", "unexpected", "raise"}

\* Mutant of NeighborLoopAfter: a failed chunk ends the neighbor loop.
NeighborLoopStopsOnFailure(outcome, next_i) ==
    IF outcome = "data" THEN next_i ELSE Len(unique_block_pks)

\* The loop offset after a chunk: the loop goes on whatever the outcome.
NeighborLoopAfter(outcome, next_i) == next_i

\* One chunk of the neighbor pre-calculation (729-767; la 444-460). A data
\* response is a dict block -> neighbor ids for the requested blocks; any
\* other outcome adds nothing (the LA variant stores an empty list).
FetchNeighborChunk ==
    /\ cm_pc = "neighbors"
    /\ processed_df # <<>>
    /\ nb_i < Len(unique_block_pks)
    /\ LET pk_chunk == SubSeq(unique_block_pks, nb_i + 1,
                           Min(nb_i + ChunkSize, Len(unique_block_pks)))
           ids == {pk_chunk[k] : k \in 1..Len(pk_chunk)}
       IN \E outcome \in NeighborOutcomes :
          \E data \in (IF outcome = "data" THEN [ids -> SUBSET Blocks]
                        ELSE {[b \in ids |-> {}]}) :
             /\ neighbor_cache' =
                   IF outcome = "data" \/ cm_variant = "la"
                   THEN [b \in DOMAIN neighbor_cache \cup ids |->
                            IF b \in ids THEN data[b] ELSE neighbor_cache[b]]
                   ELSE neighbor_cache
             /\ nb_requests' = Append(nb_requests,
                                  [chunk |-> pk_chunk, failed |-> outcome # "data"])
             /\ failed_neighbor_batches' =
                   IF outcome \in {"error", "raise"}
                   THEN failed_neighbor_batches + 1 ELSE failed_neighbor_batches
             /\ nb_i' = NeighborLoopAfter(outcome, nb_i + ChunkSize)
    /\ UNCHANGED CITY_SPECIFIC_MAPPINGS
    /\ UNCHANGED <<cm_variant, cm_pc, processed_df, metric_i, results>>
    /\ UNCHANGED <<lkVars, scVars, mpVars, idVars, upVars, auVars, mnVars,
                   nzVars,
                   ftVars, chVars, tmVars, qrVars>>

\* End of the neighbor loop; the refactored variant returns {} when the
\* city has no entry in CITY_SPECIFIC_MAPPINGS (776-781).
StartMetrics ==
    /\ cm_pc = "neighbors"
    /\ processed_df # <<>>
    /\ nb_i >= Len(unique_block_pks)
    /\ cm_pc' = IF cm_variant = "refactored"
                   /\ TargetCityId \notin DOMAIN CITY_SPECIFIC_MAPPINGS
                THEN "done" ELSE "metrics"
    /\ UNCHANGED CITY_SPECIFIC_MAPPINGS
    /\ UNCHANGED <<cm_variant, processed_df, nb_i, neighbor_cache, nb_requests,
                   failed_neighbor_batches, metric_i, results>>
    /\ UNCHANGED <<lkVars, scVars, mpVars, idVars, upVars, auVars, mnVars,
                   nzVars,
                   ftVars, chVars, tmVars, qrVars>>

\* A metric type the refactored variant skips: it has no entry in the
\* city's mapping, or an empty code list (786-795).
SkippedType(metric_type) ==
    /\ cm_variant = "refactored"
    /\ \/ metric_type \notin DOMAIN CITY_SPECIFIC_MAPPINGS[TargetCityId]
       \/ CITY_SPECIFIC_MAPPINGS[TargetCityId][metric_type] = {}

\* Mutant of MetricLoopAfter: a skipped metric type ends the loop.
MetricLoopStopsAtSkipped(skipped, next_i) ==
    IF skipped THEN Len(MetricOrder) + 1 ELSE next_i

\* The loop index after a metric type: "continue" goes on to the next one.
MetricLoopAfter(skipped, next_i) == next_i

\* One metric type of the main loop (783-909): filter by crime code,
\* aggregate per block, build one record per block with incidents; a
\* skipped type gets the empty list.
ProcessMetric ==
    /\ cm_pc = "metrics"
    /\ metric_i <= Len(MetricOrder)
    /\ LET metric_type == MetricOrder[metric_i]
           incident_map == metric_incident_map_pk(metric_type)
           metric_records ==
              IF SkippedType(metric_type) THEN {}
              ELSE {MetricRecord(metric_type, b, incident_map) :
                       b \in DOMAIN incident_map}
       IN /\ results' = [t \in DOMAIN results \cup {metric_type} |->
                           IF t = metric_type THEN metric_records ELSE results[t]]
          /\ metric_i' = MetricLoopAfter(SkippedType(metric_type), metric_i + 1)
    /\ UNCHANGED CITY_SPECIFIC_MAPPINGS
    /\ UNCHANGED <<cm_variant, cm_pc, processed_df, nb_i, neighbor_cache,
                   nb_requests, failed_neighbor_batches>>
    /\ UNCHANGED <<lkVars, scVars, mpVars, idVars, upVars, auVars, mnVars,
                   nzVars,
                   ftVars, chVars, tmVars, qrVars>>

ReturnResults ==
    /\ cm_pc = "metrics"
    /\ metric_i > Len(MetricOrder)
    /\ cm_pc' = "done"
    /\ UNCHANGED CITY_SPECIFIC_MAPPINGS
    /\ UNCHANGED <<cm_variant, processed_df, nb_i, neighbor_cache, nb_requests,
                   failed_neighbor_batches, metric_i, results>>
    /\ UNCHANGED <<lkVars, scVars, mpVars, idVars, upVars, auVars, mnVars,
                   nzVars,
                   ftVars, chVars, tmVars, qrVars>>

MetricsNext ==
    \/ ReturnNoData
    \/ FetchNeighborChunk
    \/ StartMetrics
    \/ ProcessMetric
    \/ ReturnResults

\* Every record produced so far, over all metric types.
AllRecords == UNION {results[t] : t \in DOMAIN results}

\* The blocks of the chunks whose neighbor request failed.
FailedChunkBlocks ==
    UNION {{nb_requests[k].chunk[j] : j \in 1..Len(nb_requests[k].chunk)} :
              k \in {r \in 1..Len(nb_requests) : nb_requests[r].failed}}

\* The blocks asked for in some neighbor request.
RequestedBlocks ==
    UNION {{nb_requests[k].chunk[j] : j \in 1..Len(nb_requests[k].chunk)} :
              k \in 1..Len(nb_requests)}

C9_FailedChunkDegrades ==
    /\ cm_variant = "refactored" => \A b \in FailedChunkBlocks : NeighborPks(b) = {}
    /\ cm_pc # "neighbors" =>
          \A i \in 1..Len(unique_block_pks) : unique_block_pks[i] \in RequestedBlocks
    /\ \A t \in DOMAIN results :
          \A b \in DOMAIN metric_incident_map_pk(t) :
             \E r \in results[t] :
                /\ r.block_group_id = b
                /\ (cm_variant = "refactored" /\ b \in FailedChunkBlocks) =>
                      r.weighted_incidents = QuartersPerIncident * r.direct_incidents
    /\ cm_pc = "done" /\ processed_df # <<>> =>
          DOMAIN results = {MetricOrder[i] : i \in 1..Len(MetricOrder)}

\* C9 witness: a chunk failed, a later chunk was answered with neighbors,
\* and the run ended with a record for a block of the failed chunk in a
\* metric where another block has incidents too.
C9_Witness ==
    /\ cm_variant = "refactored"
    /\ cm_pc = "done"
    /\ \E k1, k2 \in 1..Len(nb_requests) :
          /\ k1 < k2
          /\ nb_requests[k1].failed
          /\ ~nb_requests[k2].failed
          /\ NeighborPks(nb_requests[k2].chunk[1]) # {}
    /\ \E r \in AllRecords :
          /\ r.block_group_id \in FailedChunkBlocks
          /\ Cardinality(DOMAIN metric_incident_map_pk(r.metric_type)) > 1

\* C10: a block's own direct_incidents are never part of its neighbor
\* incident total: every record's weighted_incidents is the one computed
\* from the neighbor list without the block itself.
C10_OwnIncidentsNotInNeighborTotal ==
    \A r \in AllRecords :
        LET b == r.block_group_id
            incident_map == metric_incident_map_pk(r.metric_type)
            others == [n \in (NeighborPks(b) \ {b}) \cap DOMAIN incident_map |->
                          incident_map[n]]
        IN r.weighted_incidents =
              calculate_weighted_incidents(cm_variant, r.direct_incidents, others,
                                           population_density_proxy(b))

\* C11: in the refactored variant, for each metric type and each block with
\* incidents of that type, weighted_incidents = direct_incidents + 0.25 x the
\* sum of the direct_incidents, for the same metric type, of the block's
\* resolved neighbors with incidents of that type, each neighbor once;
\* direct_incidents is the number of the block's incidents that pass the
\* metric's code and time filters.
C11_WeightedIsDirectPlusQuarterNeighbors ==
    cm_variant = "refactored" =>
        \A r \in AllRecords :
            LET incident_map == metric_incident_map_pk(r.metric_type)
                counted == NeighborPks(r.block_group_id) \cap DOMAIN incident_map
            IN /\ r.block_group_id \in DOMAIN incident_map
               /\ r.direct_incidents = incident_map[r.block_group_id]
               /\ r.weighted_incidents =
                     QuartersPerIncident * r.direct_incidents
                        + SumSet(incident_map, counted)

\* C11 witness: the refactored variant has produced the record of a block
\* one of whose resolved neighbors, another block, has incidents of the
\* record's type, which raise the weighted count above the direct one.
C11_Witness ==
    /\ cm_variant = "refactored"
    /\ cm_pc = "done"
    /\ \E r \in AllRecords :
          LET incident_map == metric_incident_map_pk(r.metric_type)
              b == r.block_group_id
          IN /\ \E n \in NeighborPks(b) \ {b} : n \in DOMAIN incident_map
             /\ r.weighted_incidents > QuartersPerIncident * r.direct_incidents

\* The blocks with an incident of the given codes that passes the time
\* filter of the metric type.
BlocksWithIncidents(metric_type, codes) ==
    {processed_df[i].census_block_pk :
        i \in {j \in 1..Len(processed_df) :
                  /\ processed_df[j].crime_code \in codes
                  /\ TimeFilter[metric_type] # None =>
                        processed_df[j].hour \in TimeFilter[metric_type][1]}}

\* C18: calculate_metrics of the refactored variant, run on incidents, ends
\* by returning; without an entry for the city in CITY_SPECIFIC_MAPPINGS it
\* returns no records; with one, a metric type that is missing from the
\* city's mapping or has no codes gets the empty list and every other
\* metric type gets its records, one per block with incidents.
C18_MissingMappingAffectsOnlyItsScope ==
    (cm_variant = "refactored" /\ cm_pc = "done" /\ processed_df # <<>>) =>
        IF TargetCityId \notin DOMAIN CITY_SPECIFIC_MAPPINGS
        THEN results = << >>
        ELSE LET city_crime_codes == CITY_SPECIFIC_MAPPINGS[TargetCityId]
             IN /\ DOMAIN results = METRIC_DEFINITIONS
                /\ \A t \in METRIC_DEFINITIONS :
                      IF t \notin DOMAIN city_crime_codes
                      THEN results[t] = {}
                      ELSE IF city_crime_codes[t] = {}
                      THEN results[t] = {}
                      ELSE {r.block_group_id : r \in results[t]}
                              = BlocksWithIncidents(t, city_crime_codes[t])

\* C18 witness: the run has ended with the first metric type missing from
\* the city's mapping and a record computed for the other one.
C18_Witness ==
    /\ cm_variant = "refactored"
    /\ cm_pc = "done"
    /\ TargetCityId \in DOMAIN CITY_SPECIFIC_MAPPINGS
    /\ MetricOrder[1] \notin DOMAIN CITY_SPECIFIC_MAPPINGS[TargetCityId]
    /\ DOMAIN results = METRIC_DEFINITIONS
    /\ results[MetricOrder[1]] = {}
    /\ results[MetricOrder[2]] # {}

(***************************************************************************)
(* process_crime_data: matching coordinates to census blocks               *)
(***************************************************************************)
MaxCoords == 4       \* coordinates handed to the mapping
GeoBatchSize == 2    \* GEO_MAPPING_BATCH_SIZE (20000), scaled down

\* The points of the incidents, and what match_points_to_block_groups
\* answers for each: the data of a block, or None when no block matches.
Points == {10, 20, 30}
MatchedBlock(point) ==
    IF point = 10 THEN Some(1) ELSE IF point = 20 THEN Some(2) ELSE None

MapOutcomes == {"data", "short", "error", "unexpected", "APIError", "Exception"}

\* Mutant of FailurePlaceholders: a failed chunk adds nothing.
NoPlaceholders(coord_chunk) == <<>>

\* [None] * len(coord_chunk)
FailurePlaceholders(coord_chunk) == [k \in 1..Len(coord_chunk) |-> None]

\* What one chunk adds to all_block_data, by the outcome of its RPC call.
ChunkBlockData(outcome, coord_chunk) ==
    LET answer == [k \in 1..Len(coord_chunk) |-> MatchedBlock(coord_chunk[k])]
    IN CASE outcome = "data" -> answer
         [] outcome = "short" -> SubSeq(answer, 1, Len(answer) - 1)
         [] OTHER -> FailurePlaceholders(coord_chunk)

MapStart ==
    /\ mp_pc = "mapping"
    /\ coordinates_rpc \in SeqsUpTo(Points, MaxCoords)
    /\ mp_i = 0
    /\ all_block_data = <<>>
    /\ mp_outcomes = <<>>
    /\ failed_batches = 0

MapIdle ==
    /\ mp_pc = "done"
    /\ coordinates_rpc = <<>>
    /\ mp_i = 0
    /\ all_block_data = <<>>
    /\ mp_outcomes = <<>>
    /\ failed_batches = 0

\* One chunk of the mapping loop (450-483). A response one entry short is
\* a non-empty list only when the chunk has more than one coordinate.
MapChunk ==
    /\ mp_pc = "mapping"
    /\ mp_i < Len(coordinates_rpc)
    /\ LET coord_chunk == SubSeq(coordinates_rpc, mp_i + 1,
                              Min(mp_i + GeoBatchSize, Len(coordinates_rpc)))
       IN \E outcome \in MapOutcomes :
             /\ outcome = "short" => Len(coord_chunk) > 1
             /\ all_block_data' = all_block_data \o ChunkBlockData(outcome, coord_chunk)
             /\ mp_outcomes' = Append(mp_outcomes, outcome)
             /\ failed_batches' = IF outcome \in {"data", "short"}
                                  THEN failed_batches ELSE failed_batches + 1
    /\ mp_i' = mp_i + GeoBatchSize
    /\ UNCHANGED <<mp_pc, coordinates_rpc>>
    /\ UNCHANGED <<lkVars, cmVars, scVars, idVars, upVars, auVars, mnVars,
                   nzVars,
                   ftVars, chVars, tmVars, qrVars>>

\* After the loop: the final length check (489-492), then the merge.
FinishMapping ==
    /\ mp_pc = "mapping"
    /\ mp_i >= Len(coordinates_rpc)
    /\ mp_pc' = IF Len(all_block_data) # Len(coordinates_rpc)
                THEN "aborted" ELSE "merged"
    /\ UNCHANGED <<coordinates_rpc, mp_i, all_block_data, mp_outcomes, failed_batches>>
    /\ UNCHANGED <<lkVars, cmVars, scVars, idVars, upVars, auVars, mnVars,
                   nzVars,
                   ftVars, chVars, tmVars, qrVars>>

MapNext ==
    \/ MapChunk
    \/ FinishMapping

\* The chunk (1-based) of the coordinate at position pos.
ChunkOf(pos) == ((pos - 1) \div GeoBatchSize) + 1

\* C6: when chunks fail (error response, unexpected response, or a raised
\* exception) and the others are answered in full, all_block_data has one
\* entry per coordinate, in input order: None at the positions of the failed
\* chunks, and the resolver's answer at every other position.
C6_FailedChunkKeepsLength ==
    (\A c \in 1..Len(mp_outcomes) : mp_outcomes[c] # "short") =>
        /\ Len(all_block_data) = Min(mp_i, Len(coordinates_rpc))
        /\ \A pos \in 1..Len(all_block_data) :
              all_block_data[pos] =
                 IF mp_outcomes[ChunkOf(pos)] = "data"
                 THEN MatchedBlock(coordinates_rpc[pos]) ELSE None
        /\ mp_pc # "aborted"

\* C6 witness: the loop has ended with a failed chunk and an answered chunk
\* that matched a coordinate to a block.
C6_Witness ==
    /\ mp_pc = "merged"
    /\ Len(mp_outcomes) >= 2
    /\ \E c1, c2 \in 1..Len(mp_outcomes) :
          /\ mp_outcomes[c1] \in {"error", "APIError", "Exception"}
          /\ mp_outcomes[c2] = "data"
          /\ \E pos \in 1..Len(all_block_data) :
                ChunkOf(pos) = c2 /\ all_block_data[pos] # None

(***************************************************************************)
(* The id of a metric record                                               *)
(***************************************************************************)
MaxRuns == 2        \* runs of calculate_metrics
MaxIdRecords == 3   \* records kept over all runs

TargetCities == {1, 2}
IdBlocks == {1, 2}

IdStart ==
    /\ id_run = 1
    /\ id_now \in 0..1
    /\ id_records = {}

IdIdle ==
    /\ id_run = 0
    /\ id_now = 0
    /\ id_records = {}

\* One record of a run (874-905): the id, and the fields that vary with the
\* incidents and with the time of the run.
ComputeRecord ==
    /\ id_run >= 1
    /\ Cardinality(id_records) < MaxIdRecords
    /\ \E city \in TargetCities, pk \in IdBlocks, metric_type \in METRIC_DEFINITIONS,
          direct_incidents \in 1..2 :
          id_records' = id_records \cup
             {[run |-> id_run,
               id |-> stable_metric_id(city, pk, metric_type),
               city_id |-> city,
               block_group_id |-> pk,
               metric_type |-> metric_type,
               direct_incidents |-> direct_incidents,
               score |-> calculate_safety_score("refactored",
                            QuartersPerIncident * direct_incidents),
               created_at |-> id_now]}
    /\ UNCHANGED <<id_run, id_now>>
    /\ UNCHANGED <<lkVars, cmVars, scVars, mpVars, upVars, auVars, mnVars,
                   nzVars,
                   ftVars, chVars, tmVars, qrVars>>

\* A later run: now = datetime.now(timezone.utc) has moved on.
NextRun ==
    /\ id_run >= 1
    /\ id_run < MaxRuns
    /\ id_run' = id_run + 1
    /\ id_now' \in (id_now + 1)..(id_now + 2)
    /\ UNCHANGED id_records
    /\ UNCHANGED <<lkVars, cmVars, scVars, mpVars, upVars, auVars, mnVars,
                   nzVars,
                   ftVars, chVars, tmVars, qrVars>>

IdNext ==
    \/ ComputeRecord
    \/ NextRun

MetricUploadBatchSize == 2   \* METRIC_UPLOAD_BATCH_SIZE (100), scaled down

OtherCityId == 2
UploadBlocks == {1, 2}

\* The (metric type, block) pairs a run can have a record for, in the order
\* of metrics_by_type.items() and of the records of each list.
KeySeq ==
    [k \in 1..(Len(MetricOrder) * Cardinality(UploadBlocks)) |->
        [metric_type |-> MetricOrder[((k - 1) \div Cardinality(UploadBlocks)) + 1],
         block |-> ((k - 1) % Cardinality(UploadBlocks)) + 1]]
KeySet == {KeySeq[k] : k \in 1..Len(KeySeq)}

\* The pairs an earlier run may have left a row for.
PriorKeySets == SUBSET {KeySeq[1], KeySeq[Len(KeySeq)]}

StoreRow(city, key, gen) ==
    [id |-> stable_metric_id(city, key.block, key.metric_type),
     city_id |-> city, gen |-> gen]

\* all_metrics: the lists of metrics_by_type, one after the other (926-929).
AllMetricsOf(keys) ==
    LET Chosen(k) == k \in keys
        chosen == SelectSeq(KeySeq, Chosen)
    IN [i \in 1..Len(chosen) |-> StoreRow(TargetCityId, chosen[i], 1)]

\* Rows of another scope, which no run for TargetCityId should touch.
OtherScopeRows == {StoreRow(OtherCityId, KeySeq[1], 0)}

\* The rows of table st that belong to city.
ScopeRows(st, city) == {r \in st : r.city_id = city}

\* Outcomes of a table request: a success response; an error response; an
\* exception with the request not executed; an exception raised after the
\* request took effect (e.g. a timeout of the reply). An insert can also
\* answer with neither error nor count.
DbOutcomes == {"ok", "error", "raised", "raised_applied"}
InsertOutcomes == DbOutcomes \cup {"nocount"}
TookEffect(outcome) == outcome \in {"ok", "raised_applied", "nocount"}

\* Mutant of delete_eq_city_id: the delete removes nothing.
delete_nothing(st, city) == st

\* supabase.table('safety_metrics').delete().eq('city_id', city)
delete_eq_city_id(st, city) == st \ ScopeRows(st, city)

\* Mutant of AfterDelete: the upload goes on after a failed delete.
AfterDeleteIgnoringFailure(outcome) == "insert"

\* Where upload_metrics goes after the delete: it returns on an error
\* response and on an exception (964-980).
AfterDelete(outcome) == IF outcome = "ok" THEN "insert" ELSE "done"

\* Mutant of InsertLoopAfter: a failed batch ends the insert loop.
InsertLoopStopsOnFailure(outcome, next_i) ==
    IF outcome = "ok" THEN next_i ELSE Len(all_metrics)

\* The loop offset after a batch: the loop goes on whatever the outcome.
InsertLoopAfter(outcome, next_i) == next_i

\* The count an insert response can report for a batch: the code takes
\* insert_response.count as it comes (1001-1003).
ReportedCounts(batch) == 0..(Len(batch) + 1)

UploadStart ==
    /\ up_pc = "start"
    /\ up_test_mode \in BOOLEAN
    /\ \E keys \in PriorKeySets :
          up_prior = {StoreRow(TargetCityId, k, 0) : k \in keys}
    /\ store = up_prior \cup OtherScopeRows
    /\ \E keys \in SUBSET KeySet : all_metrics = AllMetricsOf(keys)
    /\ up_i = 0
    /\ up_log = <<>>
    /\ total_inserted = 0
    /\ total_failed_records = 0
    /\ up_first = None

UploadIdle ==
    /\ up_pc = "done"
    /\ up_test_mode = FALSE
    /\ store = {}
    /\ up_prior = {}
    /\ all_metrics = <<>>
    /\ up_i = 0
    /\ up_log = <<>>
    /\ total_inserted = 0
    /\ total_failed_records = 0
    /\ up_first = None

\* total_metrics == 0, or test mode: return without touching the table
\* (934-946).
UploadReturnEarly ==
    /\ up_pc = "start"
    /\ Len(all_metrics) = 0 \/ up_test_mode
    /\ up_pc' = "done"
    /\ UNCHANGED <<up_test_mode, store, up_prior, all_metrics, up_i, up_log,
                   total_inserted, total_failed_records, up_first>>
    /\ UNCHANGED <<lkVars, cmVars, scVars, mpVars, idVars, auVars, mnVars, nzVars,
                   ftVars, chVars, tmVars, qrVars>>

\* 1. Delete existing metrics for the target city (959-980).
DeleteExisting ==
    /\ up_pc = "start"
    /\ Len(all_metrics) > 0
    /\ ~up_test_mode
    /\ \E outcome \in DbOutcomes :
          /\ store' = IF TookEffect(outcome)
                      THEN delete_eq_city_id(store, TargetCityId) ELSE store
          /\ up_log' = Append(up_log, [op |-> "delete", batch |-> <<>>,
                                       outcome |-> outcome, count |-> 0])
          /\ up_pc' = AfterDelete(outcome)
    /\ UNCHANGED <<up_test_mode, up_prior, all_metrics, up_i, total_inserted,
                   total_failed_records, up_first>>
    /\ UNCHANGED <<lkVars, cmVars, scVars, mpVars, idVars, auVars, mnVars, nzVars,
                   ftVars, chVars, tmVars, qrVars>>

\* 2. One batch of the insert loop (988-1019). The table rejects a batch
\* that holds an id it already has (primary key). A success response
\* carries a count: the count is added to total_inserted and what is
\* missing to the batch length, if anything, to total_failed_records.
InsertBatch ==
    /\ up_pc = "insert"
    /\ up_i < Len(all_metrics)
    /\ LET batch == SubSeq(all_metrics, up_i + 1,
                        Min(up_i + MetricUploadBatchSize, Len(all_metrics)))
           rows == {batch[k] : k \in 1..Len(batch)}
           conflict == \E r \in rows : \E o \in store : o.id = r.id
       IN \E outcome \in (IF conflict THEN {"error", "raised"} ELSE InsertOutcomes) :
          \E count \in (IF outcome = "ok" THEN ReportedCounts(batch) ELSE {0}) :
             /\ store' = IF TookEffect(outcome) THEN store \cup rows ELSE store
             /\ up_log' = Append(up_log, [op |-> "insert", batch |-> batch,
                                          outcome |-> outcome, count |-> count])
             /\ total_inserted' = IF outcome = "ok"
                                  THEN total_inserted + count
                                  ELSE total_inserted
             /\ total_failed_records' =
                   IF outcome = "ok"
                   THEN total_failed_records + Max(Len(batch) - count, 0)
                   ELSE total_failed_records + Len(batch)
             /\ up_i' = InsertLoopAfter(outcome, up_i + MetricUploadBatchSize)
    /\ UNCHANGED <<up_pc, up_test_mode, up_prior, all_metrics, up_first>>
    /\ UNCHANGED <<lkVars, cmVars, scVars, mpVars, idVars, auVars, mnVars, nzVars,
                   ftVars, chVars, tmVars, qrVars>>

\* End of the insert loop (1021-1025).
FinishUpload ==
    /\ up_pc = "insert"
    /\ up_i >= Len(all_metrics)
    /\ up_pc' = "done"
    /\ UNCHANGED <<up_test_mode, store, up_prior, all_metrics, up_i, up_log,
                   total_inserted, total_failed_records, up_first>>
    /\ UNCHANGED <<lkVars, cmVars, scVars, mpVars, idVars, auVars, mnVars, nzVars,
                   ftVars, chVars, tmVars, qrVars>>

\* upload_metrics is executed once more with the same scope and records.
UploadAgain ==
    /\ up_pc = "done"
    /\ up_first = None
    /\ up_log # <<>>
    /\ up_pc' = "start"
    /\ up_first' = Some([log |-> up_log, store |-> store])
    /\ up_i' = 0
    /\ up_log' = <<>>
    /\ total_inserted' = 0
    /\ total_failed_records' = 0
    /\ UNCHANGED <<up_test_mode, store, up_prior, all_metrics>>
    /\ UNCHANGED <<lkVars, cmVars, scVars, mpVars, idVars, auVars, mnVars, nzVars,
                   ftVars, chVars, tmVars, qrVars>>

UploadNext ==
    \/ UploadReturnEarly
    \/ DeleteExisting
    \/ InsertBatch
    \/ FinishUpload
    \/ UploadAgain

(***************************************************************************)
(* update_accommodation_safety_scores: the RPC loop and the table it       *)
(* writes                                                                  *)
(***************************************************************************)
AccIds == {1, 2, 3}
NewScores == {None, Some(1)}

\* The update lists the loop can be run with: one entry per accommodation,
\* in the order of the accommodations.
UpdateLists ==
    UNION {{[i \in 1..Len(ids) |-> [id |-> ids[i], overall_safety_score |-> sc[i]]]
              : sc \in [1..Len(ids) -> NewScores]}
           : ids \in {<<1>>, <<2>>, <<1, 2>>, <<1, 3>>, <<2, 3>>, <<1, 2, 3>>}}

\* RPC update_accommodations_batch: every row whose id is in the batch gets
\* the values of its entry, every other row stays.
update_accommodations_batch(table, batch) ==
    [id \in DOMAIN table |->
        IF \E k \in 1..Len(batch) : batch[k].id = id
        THEN (CHOOSE u \in {batch[k] : k \in 1..Len(batch)} : u.id = id).overall_safety_score
        ELSE table[id]]

\* Outcomes of an RPC call: the row count; an error response; an unexpected
\* payload; an exception with the call not executed; an exception raised
\* after the call took effect.
RpcOutcomes == {"count", "error", "unexpected", "raise", "raise_applied"}
RpcTookEffect(outcome) == outcome \in {"count", "raise_applied"}

ScoreUpdateStart ==
    /\ au_pc = "rpc"
    /\ acc_prior = [id \in AccIds |-> Some(0)]
    /\ acc_scores = acc_prior
    /\ acc_updates \in UpdateLists
    /\ au_i = 0
    /\ au_log = <<>>
    /\ au_failed_batches = 0
    /\ au_first = None

ScoreUpdateIdle ==
    /\ au_pc = "done"
    /\ acc_prior = << >>
    /\ acc_scores = << >>
    /\ acc_updates = <<>>
    /\ au_i = 0
    /\ au_log = <<>>
    /\ au_failed_batches = 0
    /\ au_first = None

\* One batch of the RPC loop (1405-1439).
RpcUpdateBatch ==
    /\ au_pc = "rpc"
    /\ au_i < Len(acc_updates)
    /\ \E outcome \in RpcOutcomes :
          LET batch_data == SubSeq(acc_updates, au_i + 1,
                               Min(au_i + UpdateBatchSize, Len(acc_updates)))
          IN /\ acc_scores' = IF RpcTookEffect(outcome)
                              THEN update_accommodations_batch(acc_scores, batch_data)
                              ELSE acc_scores
             /\ au_log' = Append(au_log, [batch |-> batch_data, outcome |-> outcome])
             /\ au_failed_batches' = IF outcome = "count" THEN au_failed_batches
                                     ELSE au_failed_batches + 1
    /\ au_i' = au_i + UpdateBatchSize
    /\ UNCHANGED <<au_pc, acc_prior, acc_updates, au_first>>
    /\ UNCHANGED <<lkVars, cmVars, scVars, mpVars, idVars, upVars, mnVars, nzVars,
                   ftVars, chVars, tmVars, qrVars>>

\* End of the RPC loop (1441-1446).
FinishRpcLoop ==
    /\ au_pc = "rpc"
    /\ au_i >= Len(acc_updates)
    /\ au_pc' = "done"
    /\ UNCHANGED <<acc_prior, acc_scores, acc_updates, au_i, au_log,
                   au_failed_batches, au_first>>
    /\ UNCHANGED <<lkVars, cmVars, scVars, mpVars, idVars, upVars, mnVars, nzVars,
                   ftVars, chVars, tmVars, qrVars>>

\* The same update batches are applied once more.
RpcLoopAgain ==
    /\ au_pc = "done"
    /\ au_first = None
    /\ au_log # <<>>
    /\ au_pc' = "rpc"
    /\ au_first' = Some([log |-> au_log, acc_scores |-> acc_scores])
    /\ au_i' = 0
    /\ au_log' = <<>>
    /\ au_failed_batches' = 0
    /\ UNCHANGED <<acc_prior, acc_scores, acc_updates>>
    /\ UNCHANGED <<lkVars, cmVars, scVars, mpVars, idVars, upVars, mnVars, nzVars,
                   ftVars, chVars, tmVars, qrVars>>

ScoreUpdateNext ==
    \/ RpcUpdateBatch
    \/ FinishRpcLoop
    \/ RpcLoopAgain

(***************************************************************************)
(* Claims about the persistence writes                                     *)
(***************************************************************************)
IsInsert(e) == e.op = "insert"
InsertLog == SelectSeq(up_log, IsInsert)

RECURSIVE ConcatBatches(_)
ConcatBatches(log) ==
    IF log = <<>> THEN <<>>
    ELSE log[1].batch \o ConcatBatches(Tail(log))

RECURSIVE FailedRecords(_)
FailedRecords(log) ==
    IF log = <<>> THEN 0
    ELSE (IF log[1].outcome = "ok"
          THEN Max(Len(log[1].batch) - log[1].count, 0)
          ELSE Len(log[1].batch))
            + FailedRecords(Tail(log))

FailedRpcCalls == Cardinality({k \in 1..Len(au_log) : au_log[k].outcome # "count"})

\* C12: in both loops the batches attempted so far are exactly the
\* partition of the records up to the loop offset, in order, each of 1 to
\* batch-size records, whatever the outcomes; a failed batch is counted as
\* failed; and the loop ends only after the last batch was attempted.
C12_FailedBatchCountedLoopContinues ==
    /\ ConcatBatches(InsertLog)
          = SubSeq(all_metrics, 1, Min(up_i, Len(all_metrics)))
    /\ \A k \in 1..Len(InsertLog) :
          /\ Len(InsertLog[k].batch) \in 1..MetricUploadBatchSize
          /\ InsertLog[k].batch
                = SubSeq(all_metrics, (k - 1) * MetricUploadBatchSize + 1,
                         Min(k * MetricUploadBatchSize, Len(all_metrics)))
    /\ total_failed_records = FailedRecords(InsertLog)
    /\ (up_pc = "done" /\ InsertLog # <<>>) => up_i >= Len(all_metrics)
    /\ ConcatBatches(au_log)
          = SubSeq(acc_updates, 1, Min(au_i, Len(acc_updates)))
    /\ \A k \in 1..Len(au_log) :
          /\ Len(au_log[k].batch) \in 1..UpdateBatchSize
          /\ au_log[k].batch
                = SubSeq(acc_updates, (k - 1) * UpdateBatchSize + 1,
                         Min(k * UpdateBatchSize, Len(acc_updates)))
    /\ au_failed_batches = FailedRpcCalls
    /\ (au_pc = "done" /\ au_log # <<>>) => au_i >= Len(acc_updates)

\* C12 witness: an upload has ended whose first insert batch failed and
\* whose second batch was still attempted and inserted.
C12_Witness ==
    /\ up_pc = "done"
    /\ Len(InsertLog) >= 2
    /\ InsertLog[1].outcome \in {"error", "raised"}
    /\ InsertLog[2].outcome = "ok"
    /\ InsertLog[2].count = Len(InsertLog[2].batch)
    /\ total_failed_records = Len(InsertLog[1].batch)

\* C27: when upload_metrics has run all its insert batches, total_inserted
\* plus total_failed_records is the number of records it attempted to
\* upload, whatever the batches answered.
C27_CountersAccountForEveryRecord ==
    (up_pc = "done" /\ InsertLog # <<>>)
        => total_inserted + total_failed_records = Len(all_metrics)

\* C13: the delete is the first request of an upload and the only delete;
\* an insert is issued only after that delete answered without error; after
\* a failed delete the upload has ended with no insert issued.
C13_DeleteBeforeInsertAndGuardsIt ==
    /\ \A k \in 1..Len(up_log) : (up_log[k].op = "delete") <=> (k = 1)
    /\ InsertLog # <<>> => up_log[1].outcome = "ok"
    /\ (up_log # <<>> /\ up_log[1].outcome # "ok")
          => /\ up_pc = "done"
             /\ InsertLog = <<>>
             /\ total_inserted = 0
    /\ up_pc = "insert" => (up_log # <<>> /\ up_log[1].outcome = "ok")

\* C13 witness: a production upload with records to insert has ended after
\* its delete failed.
C13_Witness ==
    /\ up_pc = "done"
    /\ ~up_test_mode
    /\ Len(all_metrics) > 0
    /\ Len(up_log) = 1
    /\ up_log[1].op = "delete"
    /\ up_log[1].outcome \in {"error", "raised"}

\* C14: after a production upload has ended with no failed request, the
\* store holds no row of the scope that an earlier run wrote, whatever
\* records calculate_metrics produced (none included).
C14_NoStaleRecordAfterUpload ==
    (/\ up_pc = "done"
     /\ ~up_test_mode
     /\ \A k \in 1..Len(up_log) : up_log[k].outcome = "ok")
        => \A r \in ScopeRows(store, TargetCityId) : r.gen # 0

\* C15: a reader of the store never finds the scope with the rows of the
\* earlier run removed and not all of the new records present.
C15_ScopeReplacedAtomically ==
    LET scope == ScopeRows(store, TargetCityId)
        fresh == {all_metrics[k] : k \in 1..Len(all_metrics)}
    IN (up_prior # {} /\ up_log # <<>>)
          => ~((\A r \in scope : r.gen # 0) /\ ~(fresh \subseteq scope))

\* An execution of upload_metrics whose delete and every insert batch took
\* effect, and one of the RPC loop whose every call took effect.
UploadTookEffect(log) ==
    /\ log # <<>>
    /\ log[1].outcome = "ok"
    /\ ConcatBatches(SelectSeq(log, IsInsert)) = all_metrics
    /\ \A k \in 1..Len(log) : TookEffect(log[k].outcome)
RpcLoopTookEffect(log) ==
    /\ ConcatBatches(log) = acc_updates
    /\ \A k \in 1..Len(log) : RpcTookEffect(log[k].outcome)

MaxQueryRows == 3   \* rows of the index
ScaledK == 2        \* k_neighbors (50), scaled down with the index

QueryPositions == {1, 2, 5, 8}
QueryAccPositions == {2}

\* The cleaned rows of the index: every score is a number.
QueryTables ==
    {T \in SUBSET {r \in [metric_type : StoredTypes,
                          score : {Some(sc) : sc \in ScoreVals},
                          census_block_pk : QueryPositions,
                          pos : QueryPositions] : r.census_block_pk = r.pos} :
        /\ T # {}
        /\ Cardinality(T) <= MaxQueryRows
        /\ \A a, b \in T :
              (a.metric_type = b.metric_type /\ a.pos = b.pos) => a = b}

\* metric_tree.query(point, k): k rows none of which is farther than a row
\* left out (which ones among equally distant rows is up to the tree).
KDTreeQuery(df, p, k) ==
    {S \in SUBSET df :
        /\ Cardinality(S) = k
        /\ \A m \in S : \A o \in df \ S :
              calculate_distance_km(p, m.pos) <= calculate_distance_km(p, o.pos)}

\* The rows of a query result whose recomputed distance is within the
\* radius (1226-1237).
WithinRadius(rows, p) ==
    {m \in rows : calculate_distance_km(p, m.pos)
                     <= MAX_ACCOMMODATION_METRIC_DISTANCE_KM}

QueryStart ==
    /\ qr_pc = "query"
    /\ qr_df \in QueryTables
    /\ qr_pos \in QueryAccPositions
    /\ qr_indices = {}
    /\ qr_selected = << >>
    /\ qr_inferred = None
    /\ qr_entry = None

QueryIdle ==
    /\ qr_pc = "done"
    /\ qr_df = {}
    /\ qr_pos = 0
    /\ qr_indices = {}
    /\ qr_selected = << >>
    /\ qr_inferred = None
    /\ qr_entry = None

\* 4a, the query (1202-1221): the actual_k nearest rows, or no row when the
\* query raises.
QueryNeighbors ==
    /\ qr_pc = "query"
    /\ LET actual_k == Min(ScaledK, Cardinality(qr_df))
       IN \E S \in KDTreeQuery(qr_df, qr_pos, actual_k) \cup {{}} :
             qr_indices' = S
    /\ qr_pc' = "select"
    /\ UNCHANGED <<qr_df, qr_pos, qr_selected, qr_inferred, qr_entry>>
    /\ UNCHANGED <<lkVars, cmVars, scVars, mpVars, idVars, upVars, auVars,
                   mnVars, nzVars, ftVars, chVars, tmVars>>

\* 4a to 4e after the query (1223-1371): the distance filter, the inferred
\* block, the nearest row of each required type, and the update entry.
SelectAndScore ==
    /\ qr_pc = "select"
    /\ LET cands == WithinRadius(qr_indices, qr_pos)
       IN IF cands = {}
          THEN /\ qr_selected' = << >>
               /\ qr_inferred' = None
               /\ qr_entry' = Some(NoCandidateEntry(1))
          ELSE \E w \in GroupWinners(cands, qr_pos) :
               \E m0 \in ClosestOverall(w, qr_pos) :
                  /\ qr_selected' = RequiredOnly(w)
                  /\ qr_inferred' = Some(m0.census_block_pk)
                  /\ qr_entry' = Some(ScoreEntry(1, Some(m0.census_block_pk),
                                                 RequiredOnly(w)))
    /\ qr_pc' = "done"
    /\ UNCHANGED <<qr_df, qr_pos, qr_indices>>
    /\ UNCHANGED <<lkVars, cmVars, scVars, mpVars, idVars, upVars, auVars,
                   mnVars, nzVars, ftVars, chVars, tmVars>>

QueryNext == QueryNeighbors \/ SelectAndScore

QueryDistance(m) == calculate_distance_km(qr_pos, m.pos)

\* C25: of the queried rows within the radius, one row is selected for
\* each required type that has any, and it is a row of that type of minimum
\* distance; no row beyond the radius and no row the query did not return
\* is selected; the inferred block is the block of a row of globally
\* minimum distance, and there is none when no row is within the radius.
C25_NearestPerTypeWithinRadius ==
    qr_pc = "done" =>
        LET cands == {m \in qr_indices :
                         QueryDistance(m) <= MAX_ACCOMMODATION_METRIC_DISTANCE_KM}
        IN /\ DOMAIN qr_selected
                 = {m.metric_type : m \in cands} \cap METRIC_DEFINITIONS
           /\ \A t \in DOMAIN qr_selected :
                 /\ qr_selected[t] \in cands
                 /\ qr_selected[t].metric_type = t
                 /\ \A o \in cands : o.metric_type = t
                       => QueryDistance(qr_selected[t]) <= QueryDistance(o)
           /\ cands = {} => qr_inferred = None
           /\ cands # {} =>
                 \E m \in cands :
                    /\ qr_inferred = Some(m.census_block_pk)
                    /\ \A o \in cands : QueryDistance(m) <= QueryDistance(o)

\* C25 witness: the query returned two rows of one required type within
\* the radius at different distances, the nearer one was selected and its
\* block inferred.
C25_Witness ==
    /\ qr_pc = "done"
    /\ \E a, b \in qr_indices :
          /\ a.metric_type = "night" /\ b.metric_type = "night"
          /\ QueryDistance(a) < QueryDistance(b)
          /\ QueryDistance(b) <= MAX_ACCOMMODATION_METRIC_DISTANCE_KM
          /\ qr_selected = [t \in {"night"} |-> a]
          /\ qr_inferred = Some(a.census_block_pk)

\* C28: when the query answered, every required type with a stored row
\* within the radius is among the selected types, is counted in
\* safety_metric_types_found, and its selected row is a nearest one of the
\* stored rows of that type.
C28_InRadiusTypeNeverHidden ==
    (qr_pc = "done" /\ qr_indices # {}) =>
        \A t \in METRIC_DEFINITIONS :
            LET stored == {m \in qr_df :
                             /\ m.metric_type = t
                             /\ QueryDistance(m)
                                   <= MAX_ACCOMMODATION_METRIC_DISTANCE_KM}
            IN stored # {} =>
                  /\ t \in DOMAIN qr_selected
                  /\ \A o \in stored :
                        QueryDistance(qr_selected[t]) <= QueryDistance(o)
                  /\ qr_entry[1].safety_metric_types_found # None
                  /\ qr_entry[1].safety_metric_types_found[1]
                        >= Cardinality({u \in METRIC_DEFINITIONS :
                              \E m \in qr_df :
                                 /\ m.metric_type = u
                                 /\ QueryDistance(m)
                                       <= MAX_ACCOMMODATION_METRIC_DISTANCE_KM})

(***************************************************************************)
(* main, steps 5 and 6: upload_metrics and the accommodation score update  *)
(***************************************************************************)
\* Mutant of RunsScoreUpdate: step 6 runs the update in every mode.
RunsScoreUpdateAlways(mode) == TRUE

\* Step 6 runs update_accommodation_safety_scores unless in test mode
\* (1513-1517).
RunsScoreUpdate(mode) == ~mode

\* The accommodation table and the update list before step 6.
ScoreUpdatePending ==
    /\ au_pc = "pending"
    /\ acc_prior = [id \in AccIds |-> Some(0)]
    /\ acc_scores = acc_prior
    /\ acc_updates \in UpdateLists
    /\ au_i = 0
    /\ au_log = <<>>
    /\ au_failed_batches = 0
    /\ au_first = None

MaxStepMetrics == 2   \* records handed to step 5
MaxStepUpdates == 1   \* update entries of step 6

\* main calls upload_metrics with its own test_mode (1509-1510).
StepsStart ==
    /\ test_mode \in BOOLEAN
    /\ mn_step = "step5"
    /\ UploadStart
    /\ Len(all_metrics) <= MaxStepMetrics
    /\ up_test_mode = test_mode
    /\ ScoreUpdatePending
    /\ Len(acc_updates) <= MaxStepUpdates

StepsIdle == test_mode = FALSE /\ mn_step = "done"

\* upload_metrics has returned; main goes on to step 6.
UploadReturns ==
    /\ mn_step = "step5"
    /\ up_pc = "done"
    /\ mn_step' = "step6"
    /\ UNCHANGED test_mode
    /\ UNCHANGED <<lkVars, cmVars, scVars, mpVars, idVars, upVars, auVars,
                   mnVars, nzVars, ftVars, chVars, qrVars>>

\* Step 6 (1512-1523).
UpdateAccommodationScores ==
    /\ mn_step = "step6"
    /\ IF RunsScoreUpdate(test_mode)
       THEN au_pc' = "rpc" /\ mn_step' = "updating"
       ELSE au_pc' = au_pc /\ mn_step' = "done"
    /\ UNCHANGED <<test_mode, acc_prior, acc_scores, acc_updates, au_i, au_log,
                   au_failed_batches, au_first>>
    /\ UNCHANGED <<lkVars, cmVars, scVars, mpVars, idVars, upVars, mnVars,
                   nzVars, ftVars, chVars, qrVars>>

\* The score update has returned; main completes (1525-1529).
ScoreUpdateReturns ==
    /\ mn_step = "updating"
    /\ au_pc = "done"
    /\ mn_step' = "done"
    /\ UNCHANGED test_mode
    /\ UNCHANGED <<lkVars, cmVars, scVars, mpVars, idVars, upVars, auVars,
                   mnVars, nzVars, ftVars, chVars, qrVars>>

StepsNext ==
    \/ UploadReturnEarly
    \/ DeleteExisting
    \/ InsertBatch
    \/ FinishUpload
    \/ UploadReturns
    \/ UpdateAccommodationScores
    \/ RpcUpdateBatch
    \/ FinishRpcLoop
    \/ ScoreUpdateReturns

\* C24: in test mode no request is sent to table safety_metrics, neither
\* the delete nor an insert, the table stays as it was, and the score
\* update is never started, so the accommodation table stays as it was.
C24_TestModeWritesNothing ==
    test_mode
        => /\ up_log = <<>>
           /\ store = up_prior \cup OtherScopeRows
           /\ total_inserted = 0 /\ total_failed_records = 0
           /\ au_pc = "pending"
           /\ au_log = <<>>
           /\ acc_scores = acc_prior

\* C24 witness: main has completed in test mode with metrics to upload,
\* rows of an earlier run in the table and accommodations to update.
C24_Witness ==
    /\ test_mode
    /\ mn_step = "done"
    /\ Len(all_metrics) > 0
    /\ up_prior # {}
    /\ acc_updates # <<>>

(***************************************************************************)
(* main                                                                    *)
(***************************************************************************)
MaxRaw == 3    \* records returned by fetch_crime_data

\* A raw record is its point; NoPoint is a record whose coordinates the
\* cleaning of process_crime_data drops.
NoPoint == 0
RawRecords == Points \cup {NoPoint}

\* The coordinates left after cleaning, in input order (342-355, 428-436).
HasPoint(rec) == rec # NoPoint
CleanCoordinates(raw) == SelectSeq(raw, HasPoint)

\* What process_crime_data returns once the mapping loop has ended: None
\* after the length check failed (489-492); None when no entry carries a
\* block, because the merged frame then has no column census_block_pk and
\* dropna raises (494-524, 558-560); a frame with rows otherwise.
ProcessResult(mapping_pc, block_data) ==
    IF mapping_pc = "aborted" THEN "None"
    ELSE IF \A k \in 1..Len(block_data) : block_data[k] = None THEN "None"
    ELSE "rows"

MainStart ==
    /\ mn_pc = "load"
    /\ mn_definitions \in SUBSET METRIC_DEFINITIONS
    /\ raw_crime_data \in SeqsUpTo(RawRecords, MaxRaw)
    /\ mn_stages = {}
    /\ mn_exit = None

MainIdle ==
    /\ mn_pc = "done"
    /\ mn_definitions = {}
    /\ raw_crime_data = <<>>
    /\ mn_stages = {}
    /\ mn_exit = None

\* Step 1 (1466-1470): load_global_config exits when METRIC_DEFINITIONS is
\* empty (88-90).
LoadConfigurations ==
    /\ mn_pc = "load"
    /\ mn_stages' = mn_stages \cup {"load"}
    /\ IF mn_definitions = {}
       THEN mn_pc' = "done" /\ mn_exit' = Some("exit")
       ELSE mn_pc' = "fetch" /\ UNCHANGED mn_exit
    /\ UNCHANGED <<mn_definitions, raw_crime_data>>
    /\ UNCHANGED <<lkVars, cmVars, scVars, mpVars, idVars, upVars, auVars, nzVars,
                   ftVars, chVars, tmVars, qrVars>>

\* Step 2 (1477-1484): return when nothing was fetched.
FetchCrimeData ==
    /\ mn_pc = "fetch"
    /\ mn_stages' = mn_stages \cup {"fetch"}
    /\ IF raw_crime_data = <<>>
       THEN mn_pc' = "done" /\ mn_exit' = Some("return")
       ELSE mn_pc' = "process" /\ UNCHANGED mn_exit
    /\ UNCHANGED <<mn_definitions, raw_crime_data>>
    /\ UNCHANGED <<lkVars, cmVars, scVars, mpVars, idVars, upVars, auVars, nzVars,
                   ftVars, chVars, tmVars, qrVars>>

\* Step 3, first part (1486-1488, 298-436): clean the records; with none
\* left process_crime_data returns an empty frame and main returns
\* (1491-1493); else the coordinates go to the mapping loop.
ProcessCrimeData ==
    /\ mn_pc = "process"
    /\ mn_stages' = mn_stages \cup {"process"}
    /\ LET coordinates == CleanCoordinates(raw_crime_data)
       IN IF coordinates = <<>>
          THEN /\ mn_pc' = "done"
               /\ mn_exit' = Some("return")
               /\ UNCHANGED mpVars
          ELSE /\ mn_pc' = "mapping"
               /\ UNCHANGED mn_exit
               /\ mp_pc' = "mapping"
               /\ coordinates_rpc' = coordinates
               /\ UNCHANGED <<mp_i, all_block_data, mp_outcomes, failed_batches>>
    /\ UNCHANGED <<mn_definitions, raw_crime_data>>
    /\ UNCHANGED <<lkVars, cmVars, scVars, idVars, upVars, auVars, nzVars,
                   ftVars, chVars, tmVars, qrVars>>

\* Step 3, last part (494-560, 1491-1493): after the mapping loop main goes
\* on only with a frame that has rows.
CheckProcessed ==
    /\ mn_pc = "mapping"
    /\ mp_pc \in {"merged", "aborted"}
    /\ IF ProcessResult(mp_pc, all_block_data) = "None"
       THEN mn_pc' = "done" /\ mn_exit' = Some("return")
       ELSE mn_pc' = "calculate" /\ UNCHANGED mn_exit
    /\ UNCHANGED <<mn_definitions, raw_crime_data, mn_stages>>
    /\ UNCHANGED <<lkVars, cmVars, scVars, mpVars, idVars, upVars, auVars, nzVars,
                   ftVars, chVars, tmVars, qrVars>>

\* Step 4 (1497-1507): calculate_metrics; an empty result is only logged.
CalculateMetrics ==
    /\ mn_pc = "calculate"
    /\ mn_stages' = mn_stages \cup {"calculate"}
    /\ mn_pc' = "upload"
    /\ UNCHANGED <<mn_definitions, raw_crime_data, mn_exit>>
    /\ UNCHANGED <<lkVars, cmVars, scVars, mpVars, idVars, upVars, auVars, nzVars,
                   ftVars, chVars, tmVars, qrVars>>

\* Steps 5 and 6 (1509-1530): upload_metrics and the score update handle
\* their own failures, main completes after them.
UploadAndUpdate ==
    /\ mn_pc = "upload"
    /\ mn_stages' = mn_stages \cup {"upload"}
    /\ mn_pc' = "done"
    /\ mn_exit' = Some("completed")
    /\ UNCHANGED <<mn_definitions, raw_crime_data>>
    /\ UNCHANGED <<lkVars, cmVars, scVars, mpVars, idVars, upVars, auVars, nzVars,
                   ftVars, chVars, tmVars, qrVars>>

MainNext ==
    \/ LoadConfigurations
    \/ FetchCrimeData
    \/ ProcessCrimeData
    \/ CheckProcessed
    \/ CalculateMetrics
    \/ UploadAndUpdate
    \/ MapNext

\* C17: when at least one MetricDefinition is loaded and at least one
\* fetched incident has valid coordinates inside a census block, main
\* enters the calculation and the upload steps before it ends, whatever
\* the mapping chunks answer.
C17_AbortsOnlyWithoutDefinitionsOrIncidents ==
    (/\ mn_pc = "done"
     /\ mn_exit # None
     /\ mn_definitions # {}
     /\ \E k \in 1..Len(raw_crime_data) :
           HasPoint(raw_crime_data[k]) /\ MatchedBlock(raw_crime_data[k]) # None)
        => {"calculate", "upload"} \subseteq mn_stages

(***************************************************************************)
(* process_crime_data: coordinate cleaning and datetime parsing, and the   *)
(* time filter of calculate_metrics that reads the hour                    *)
(***************************************************************************)
MaxNzRaw == 1    \* raw records of a run

LAPD == "2nrs-mtv8"
NYPD == "uip8-fykc"

\* Raw coordinate values as the source delivers them.
RawLatitudes == {"abc", "inf", "0.0", "34.05"}
RawLongitudes == {"0.0", "-118.2"}

\* pd.to_numeric(errors='coerce') on one value: NaN for text that is no
\* number, the float otherwise (in whole degrees); "inf" parses to inf.
to_numeric(v) ==
    CASE v = "34.05" -> <<"num", 34>>
      [] v = "-118.2" -> <<"num", -118>>
      [] v = "0.0" -> <<"num", 0>>
      [] v = "inf" -> <<"inf">>
      [] OTHER -> <<"nan">>

IsNaN(x) == x = <<"nan">>
IsZero(x) == x = <<"num", 0>>

\* Raw dates: missing, unparsable, or a timestamp (with its hour).
DateStrs == {None, <<"bad">>, <<"ts", 0>>}

\* Raw times of day, as strings of characters: missing, no number, "230",
\* "1430", "2400".
Digits == <<"0", "1", "2", "3", "4", "5", "6", "7", "8", "9">>
TimeStrs ==
    {None, <<"a", "b", "c">>, <<"2", "3", "0">>, <<"1", "4", "3", "0">>,
     <<"2", "4", "0", "0">>}

RawRows ==
    [latitude : RawLatitudes, longitude : RawLongitudes,
     date_str : DateStrs, time_str : TimeStrs]

\* str.zfill(4)
zfill4(str) ==
    IF Len(str) >= 4 THEN str
    ELSE [k \in 1..(4 - Len(str)) |-> "0"] \o str

\* str.isdigit() and int(str) for a string of characters.
isdigit(str) ==
    /\ str # <<>>
    /\ \A k \in 1..Len(str) : \E d \in 1..Len(Digits) : Digits[d] = str[k]
DigitValue(c) == (CHOOSE d \in 1..Len(Digits) : Digits[d] = c) - 1
int2(c1, c2) == 10 * DigitValue(c1) + DigitValue(c2)

DefaultHour == 12   \* parsed_time = "12:00:00"

\* The hour and minute parse_datetime_internal takes from time_str of an
\* LAPD row (386-396): the default when it is missing or not four digits
\* after zfill; 23:59 for an hour of 24 and more.
lapd_parsed_time(time_str_val) ==
    IF time_str_val = None THEN <<DefaultHour, 0>>
    ELSE LET time_str == zfill4(time_str_val)
         IN IF Len(time_str) = 4 /\ isdigit(time_str)
            THEN LET hour == int2(time_str[1], time_str[2])
                     minute == int2(time_str[3], time_str[4])
                 IN IF hour >= 24 THEN <<23, 59>> ELSE <<hour, minute>>
            ELSE <<DefaultHour, 0>>

\* parse_datetime_internal (367-412) followed by .dt.hour (425): None for
\* NaT, else the hour. NYPD rows take it from the timestamp of date_str,
\* LAPD rows from time_str.
parse_datetime_hour(dataset, row) ==
    IF row.date_str = None \/ row.date_str = <<"bad">> THEN None
    ELSE IF dataset = NYPD THEN Some(row.date_str[2])
    ELSE LET parsed == lapd_parsed_time(row.time_str)
         IN IF parsed[2] > 59 THEN None ELSE Some(parsed[1])

\* dropna(subset=['latitude', 'longitude']), then
\* df[(df['latitude'] != 0) & (df['longitude'] != 0)]  (348-349).
coordinates_kept(latitude, longitude) ==
    /\ ~IsNaN(latitude) /\ ~IsNaN(longitude)
    /\ ~IsZero(latitude) /\ ~IsZero(longitude)

TimeFilterChoices == {None, Some({2}), Some({12, 14})}

NormStart ==
    /\ nz_pc = "clean"
    /\ dataset_id \in {LAPD, NYPD}
    /\ time_filter_hours \in TimeFilterChoices
    /\ nz_raw \in SeqsUpTo(RawRows, MaxNzRaw)
    /\ nz_df = <<>>
    /\ metric_crimes_df = {}

NormIdle ==
    /\ nz_pc = "done"
    /\ dataset_id = LAPD
    /\ time_filter_hours = None
    /\ nz_raw = <<>>
    /\ nz_df = <<>>
    /\ metric_crimes_df = {}

\* Step 3 (345-355): coerce the coordinates, drop the rows the filter
\* rejects; return an empty frame when none is left.
CleanCoordinateRows ==
    /\ nz_pc = "clean"
    /\ LET numeric == [k \in 1..Len(nz_raw) |->
                         [idx |-> k,
                          latitude |-> to_numeric(nz_raw[k].latitude),
                          longitude |-> to_numeric(nz_raw[k].longitude),
                          hour |-> None]]
           Kept(r) == coordinates_kept(r.latitude, r.longitude)
           df == SelectSeq(numeric, Kept)
       IN /\ nz_df' = df
          /\ nz_pc' = IF df = <<>> THEN "no_coordinates" ELSE "datetime"
    /\ UNCHANGED <<dataset_id, time_filter_hours, nz_raw, metric_crimes_df>>
    /\ UNCHANGED <<lkVars, cmVars, scVars, mpVars, idVars, upVars, auVars, mnVars,
                   ftVars, chVars, tmVars, qrVars>>

\* Step 4 (364-426): parse the datetime of each row, drop the rows with
\* NaT, set the hour; return an empty frame when none is left.
ParseDatetime ==
    /\ nz_pc = "datetime"
    /\ LET parsed == [k \in 1..Len(nz_df) |->
                        [nz_df[k] EXCEPT
                           !.hour = parse_datetime_hour(dataset_id, nz_raw[nz_df[k].idx])]]
           HasDatetime(r) == r.hour # None
           df == SelectSeq(parsed, HasDatetime)
       IN /\ nz_df' = df
          /\ nz_pc' = IF df = <<>> THEN "no_datetime" ELSE "filter"
    /\ UNCHANGED <<dataset_id, time_filter_hours, nz_raw, metric_crimes_df>>
    /\ UNCHANGED <<lkVars, cmVars, scVars, mpVars, idVars, upVars, auVars, mnVars,
                   ftVars, chVars, tmVars, qrVars>>

\* calculate_metrics 2b (801-819): the time filter of a metric, skipped for
\* the NYPD dataset.
ApplyTimeFilter ==
    /\ nz_pc = "filter"
    /\ LET skip_time_filter == dataset_id = NYPD
           rows == {k \in 1..Len(nz_df) :
                       (time_filter_hours # None /\ ~skip_time_filter)
                          => nz_df[k].hour[1] \in time_filter_hours[1]}
       IN metric_crimes_df' = {nz_df[k].idx : k \in rows}
    /\ nz_pc' = "done"
    /\ UNCHANGED <<dataset_id, time_filter_hours, nz_raw, nz_df>>
    /\ UNCHANGED <<lkVars, cmVars, scVars, mpVars, idVars, upVars, auVars, mnVars,
                   ftVars, chVars, tmVars, qrVars>>

NormNext ==
    \/ CleanCoordinateRows
    \/ ParseDatetime
    \/ ApplyTimeFilter


(***************************************************************************)
(* The fetching loops: fetch_crime_data of the LA variant, the paginated   *)
(* metrics fetch of update_accommodation_safety_scores, and one GET        *)
(* through the retrying session of CensusHelper                            *)
(***************************************************************************)
MaxFetchRecords == 5   \* rows the remote endpoint holds
FetchBatchSize == 2    \* batch_size (1000), scaled down
RetryTotal == 5        \* Retry(total=5)

FetchStart ==
    /\ ft_kind \in {"la", "pagination", "session"}
    /\ ft_pc = "fetching"
    /\ ft_remote \in (IF ft_kind = "session" THEN {1} ELSE 0..MaxFetchRecords)
    /\ ft_offset = 0
    /\ ft_fetched = 0
    /\ ft_attempts = 0

FetchIdle ==
    /\ ft_kind = "la"
    /\ ft_pc = "done"
    /\ ft_remote = 0
    /\ ft_offset = 0
    /\ ft_fetched = 0
    /\ ft_attempts = 0

\* la_safety_processor.fetch_crime_data: nothing to fetch (204-206), or the
\* while loop has reached records_to_fetch (211, 236-237).
LaFetchEnd ==
    /\ ft_kind = "la"
    /\ ft_pc = "fetching"
    /\ ft_offset >= ft_remote
    /\ ft_pc' = "done"
    /\ UNCHANGED <<ft_kind, ft_remote, ft_offset, ft_fetched, ft_attempts>>
    /\ UNCHANGED <<lkVars, cmVars, scVars, mpVars, idVars, upVars, auVars,
                   mnVars, nzVars, chVars, tmVars, qrVars>>

LaBatchOutcomes == {"batch", "empty", "RequestException", "Exception"}

\* One pass of the while loop (211-235): a batch of 1 to fetch_limit rows
\* moves the offset; an empty batch ends the loop; a RequestException
\* sleeps 5 seconds and the loop goes round with the same offset; another
\* exception ends the loop when rows were fetched and is raised otherwise.
LaFetchBatch ==
    /\ ft_kind = "la"
    /\ ft_pc = "fetching"
    /\ ft_offset < ft_remote
    /\ LET fetch_limit == Min(FetchBatchSize, ft_remote - ft_offset)
       IN \E outcome \in LaBatchOutcomes :
          \E batch_len \in (IF outcome = "batch" THEN 1..fetch_limit ELSE {0}) :
             /\ ft_offset' = ft_offset + batch_len
             /\ ft_fetched' = ft_fetched + batch_len
             /\ ft_pc' = CASE outcome = "batch" -> "fetching"
                           [] outcome = "empty" -> "done"
                           [] outcome = "RequestException" -> "sleeping"
                           [] OTHER -> IF ft_fetched > 0 THEN "done" ELSE "raised"
    /\ UNCHANGED <<ft_kind, ft_remote, ft_attempts>>
    /\ UNCHANGED <<lkVars, cmVars, scVars, mpVars, idVars, upVars, auVars,
                   mnVars, nzVars, chVars, tmVars, qrVars>>

\* time.sleep(5) of the LA loop, or the backoff of the session, is over.
WakeUp ==
    /\ ft_pc = "sleeping"
    /\ ft_pc' = "fetching"
    /\ UNCHANGED <<ft_kind, ft_remote, ft_offset, ft_fetched, ft_attempts>>
    /\ UNCHANGED <<lkVars, cmVars, scVars, mpVars, idVars, upVars, auVars,
                   mnVars, nzVars, chVars, tmVars, qrVars>>

PageOutcomes == {"data", "error", "APIError", "Exception"}

\* One pass of the pagination loop (refactored 1058-1099): a page of the
\* rows from the offset on; a short or empty page, an error response and
\* an exception all end the loop.
FetchMetricsPage ==
    /\ ft_kind = "pagination"
    /\ ft_pc = "fetching"
    /\ \E outcome \in PageOutcomes :
          LET page_len == IF outcome = "data"
                          THEN Min(FetchBatchSize, Max(ft_remote - ft_offset, 0))
                          ELSE 0
          IN /\ ft_fetched' = ft_fetched + page_len
             /\ IF page_len > 0 /\ page_len >= FetchBatchSize
                THEN ft_offset' = ft_offset + FetchBatchSize /\ ft_pc' = "fetching"
                ELSE ft_offset' = ft_offset /\ ft_pc' = "done"
    /\ UNCHANGED <<ft_kind, ft_remote, ft_attempts>>
    /\ UNCHANGED <<lkVars, cmVars, scVars, mpVars, idVars, upVars, auVars,
                   mnVars, nzVars, chVars, tmVars, qrVars>>

SessionOutcomes == {"200", "retriable", "other_status", "connection_error"}

\* One attempt of session.get (census_helper 34-42, 111-112): a status of
\* the forcelist or a connection error is retried after a backoff until
\* RetryTotal retries are used up, then the error is raised; any other
\* error status is raised by raise_for_status at once.
SessionGet ==
    /\ ft_kind = "session"
    /\ ft_pc = "fetching"
    /\ \E outcome \in SessionOutcomes :
          /\ ft_attempts' = ft_attempts + 1
          /\ ft_pc' = CASE outcome = "200" -> "done"
                        [] outcome = "other_status" -> "raised"
                        [] OTHER -> IF ft_attempts < RetryTotal
                                    THEN "sleeping" ELSE "raised"
          /\ ft_fetched' = IF outcome = "200" THEN ft_remote ELSE ft_fetched
    /\ UNCHANGED <<ft_kind, ft_remote, ft_offset>>
    /\ UNCHANGED <<lkVars, cmVars, scVars, mpVars, idVars, upVars, auVars,
                   mnVars, nzVars, chVars, tmVars, qrVars>>

FetchNext ==
    \/ LaFetchEnd
    \/ LaFetchBatch
    \/ WakeUp
    \/ FetchMetricsPage
    \/ SessionGet

\* C21: every fetching loop ends, by returning or by raising, also when the
\* remote endpoint fails on every attempt.
C21_FetchLoopsTerminate == <>(ft_pc \in {"done", "raised"})

(***************************************************************************)
(* CensusHelper: get_block_groups_batch and its worker threads             *)
(***************************************************************************)
MaxBatchCoords == 2   \* coordinates of a call
MaxCalls == 2         \* calls of get_block_groups_batch on one helper
MaxTime == 5          \* the clock stops here
max_workers == 2      \* self.max_workers (5), scaled down
min_delay == 2        \* self.min_delay (1.0 s), in clock ticks

\* Coordinates in units of 1e-7 degrees; 10 and 12 differ only in the
\* seventh decimal.
CoordValues == {10, 12, 20}

\* f"{lat:.6f}": the coordinate rounded to six decimals.
cache_key(coord) == (coord + 5) \div 10

Workers == 1..max_workers

\* The block group the geocoder knows for a key.
GeoidOf(key) == key + 100

CensusStart ==
    /\ ch_pc = "idle"
    /\ ch_call = 0
    /\ ch_coordinates \in SeqsUpTo(CoordValues, MaxBatchCoords) \ {<<>>}
    /\ to_fetch = <<>>
    /\ ch_workers = [w \in Workers |-> None]
    /\ _block_group_cache = << >>
    /\ _failed_locations = {}
    /\ last_api_call = 0
    /\ ch_now = min_delay
    /\ ch_requests = <<>>
    /\ ch_results = << >>

CensusIdleRest ==
    /\ ch_call = 0
    /\ ch_coordinates = <<>>
    /\ to_fetch = <<>>
    /\ ch_workers = << >>
    /\ _block_group_cache = << >>
    /\ _failed_locations = {}
    /\ last_api_call = 0
    /\ ch_now = 0
    /\ ch_requests = <<>>
    /\ ch_results = << >>

\* get_block_groups_batch up to the pool (143-165): answer from the cache,
\* skip the failed keys, hand every other coordinate to the pool; return
\* at once when nothing is left to fetch.
BeginBatch ==
    /\ ch_pc \in {"idle", "returned"}
    /\ ch_call < MaxCalls
    /\ LET Cached(c) == cache_key(c) \in DOMAIN _block_group_cache
           Wanted(c) == ~Cached(c) /\ cache_key(c) \notin _failed_locations
           hits == {cache_key(ch_coordinates[k]) :
                       k \in {j \in 1..Len(ch_coordinates) : Cached(ch_coordinates[j])}}
           todo == SelectSeq(ch_coordinates, Wanted)
       IN /\ ch_results' = [key \in hits |-> _block_group_cache[key]]
          /\ to_fetch' = todo
          /\ ch_pc' = IF todo = <<>> THEN "returned" ELSE "pool"
    /\ ch_call' = ch_call + 1
    /\ UNCHANGED <<ch_coordinates, ch_workers, _block_group_cache,
                   _failed_locations, last_api_call, ch_now, ch_requests>>
    /\ UNCHANGED <<lkVars, cmVars, scVars, mpVars, idVars, upVars, auVars,
                   mnVars, nzVars, ftVars, tmVars, qrVars>>

\* A free worker of the pool takes the next submitted task (160-165).
StartTask(w) ==
    /\ ch_pc = "pool"
    /\ ch_workers[w] = None
    /\ to_fetch # <<>>
    /\ ch_workers' = [ch_workers EXCEPT
                         ![w] = Some([pc |-> "check", coord |-> Head(to_fetch),
                                      sleep |-> 0])]
    /\ to_fetch' = Tail(to_fetch)
    /\ UNCHANGED <<ch_pc, ch_call, ch_coordinates, _block_group_cache,
                   _failed_locations, last_api_call, ch_now, ch_requests,
                   ch_results>>
    /\ UNCHANGED <<lkVars, cmVars, scVars, mpVars, idVars, upVars, auVars,
                   mnVars, nzVars, ftVars, tmVars, qrVars>>

\* The task of worker w ends with block_group; the submitting thread puts
\* a block found into results (168-172).
TaskReturns(w, key, block_group) ==
    /\ ch_workers' = [ch_workers EXCEPT ![w] = None]
    /\ ch_results' = IF block_group = None THEN ch_results
                     ELSE [k \in DOMAIN ch_results \cup {key} |->
                             IF k = key THEN block_group[1] ELSE ch_results[k]]

\* _fetch_single_location, the two lookups at its start (93-99).
CheckCaches(w) ==
    /\ ch_workers[w] # None
    /\ ch_workers[w][1].pc = "check"
    /\ LET key == cache_key(ch_workers[w][1].coord)
       IN IF key \in DOMAIN _block_group_cache
          THEN TaskReturns(w, key, Some(_block_group_cache[key]))
          ELSE IF key \in _failed_locations
          THEN TaskReturns(w, key, None)
          ELSE /\ ch_workers' = [ch_workers EXCEPT ![w] = Some([@[1] EXCEPT !.pc = "rate_limit"])]
               /\ UNCHANGED ch_results
    /\ UNCHANGED <<ch_pc, ch_call, ch_coordinates, to_fetch, _block_group_cache,
                   _failed_locations, last_api_call, ch_now, ch_requests>>
    /\ UNCHANGED <<lkVars, cmVars, scVars, mpVars, idVars, upVars, auVars,
                   mnVars, nzVars, ftVars, tmVars, qrVars>>

\* _rate_limit, lines 59-62: read the clock and last_api_call, and sleep
\* for what is missing to min_delay.
RateLimitRead(w) ==
    /\ ch_workers[w] # None
    /\ ch_workers[w][1].pc = "rate_limit"
    /\ LET elapsed == ch_now - last_api_call
           wake == IF elapsed < min_delay THEN ch_now + (min_delay - elapsed)
                   ELSE ch_now
       IN ch_workers' = [ch_workers EXCEPT
                            ![w] = Some([@[1] EXCEPT !.pc = "sleep", !.sleep = wake])]
    /\ UNCHANGED <<ch_pc, ch_call, ch_coordinates, to_fetch, _block_group_cache,
                   _failed_locations, last_api_call, ch_now, ch_requests,
                   ch_results>>
    /\ UNCHANGED <<lkVars, cmVars, scVars, mpVars, idVars, upVars, auVars,
                   mnVars, nzVars, ftVars, tmVars, qrVars>>

\* _rate_limit, line 63, after the sleep: self.last_api_call = time.time(),
\* and then session.get is issued (111).
RateLimitSet(w) ==
    /\ ch_workers[w] # None
    /\ ch_workers[w][1].pc = "sleep"
    /\ ch_now >= ch_workers[w][1].sleep
    /\ last_api_call' = ch_now
    /\ ch_requests' = Append(ch_requests,
                         [key |-> cache_key(ch_workers[w][1].coord),
                          at |-> ch_now, call |-> ch_call, worker |-> w])
    /\ ch_workers' = [ch_workers EXCEPT
                         ![w] = Some([@[1] EXCEPT !.pc = "response", !.sleep = 0])]
    /\ UNCHANGED <<ch_pc, ch_call, ch_coordinates, to_fetch, _block_group_cache,
                   _failed_locations, ch_now, ch_results>>
    /\ UNCHANGED <<lkVars, cmVars, scVars, mpVars, idVars, upVars, auVars,
                   mnVars, nzVars, ftVars, tmVars, qrVars>>

GeocoderOutcomes == {"block_group", "no_block_group", "exception"}

\* The response arrives (112-130): a block group goes to the cache, no
\* block group or any exception puts the key into _failed_locations.
StoreResponse(w) ==
    /\ ch_workers[w] # None
    /\ ch_workers[w][1].pc = "response"
    /\ LET key == cache_key(ch_workers[w][1].coord)
       IN \E outcome \in GeocoderOutcomes :
             IF outcome = "block_group"
             THEN /\ _block_group_cache' =
                        [k \in DOMAIN _block_group_cache \cup {key} |->
                            IF k = key THEN GeoidOf(key) ELSE _block_group_cache[k]]
                  /\ UNCHANGED _failed_locations
                  /\ TaskReturns(w, key, Some(GeoidOf(key)))
             ELSE /\ _failed_locations' = _failed_locations \cup {key}
                  /\ UNCHANGED _block_group_cache
                  /\ TaskReturns(w, key, None)
    /\ UNCHANGED <<ch_pc, ch_call, ch_coordinates, to_fetch, last_api_call,
                   ch_now, ch_requests>>
    /\ UNCHANGED <<lkVars, cmVars, scVars, mpVars, idVars, upVars, auVars,
                   mnVars, nzVars, ftVars, tmVars, qrVars>>

\* Every task is done: get_block_groups_batch returns (179-180).
EndBatch ==
    /\ ch_pc = "pool"
    /\ to_fetch = <<>>
    /\ \A w \in Workers : ch_workers[w] = None
    /\ ch_pc' = "returned"
    /\ UNCHANGED <<ch_call, ch_coordinates, to_fetch, ch_workers,
                   _block_group_cache, _failed_locations, last_api_call,
                   ch_now, ch_requests, ch_results>>
    /\ UNCHANGED <<lkVars, cmVars, scVars, mpVars, idVars, upVars, auVars,
                   mnVars, nzVars, ftVars, tmVars, qrVars>>

\* Time passes.
Tick ==
    /\ ch_pc = "pool"
    /\ ch_now < MaxTime
    /\ ch_now' = ch_now + 1
    /\ UNCHANGED <<ch_pc, ch_call, ch_coordinates, to_fetch, ch_workers,
                   _block_group_cache, _failed_locations, last_api_call,
                   ch_requests, ch_results>>
    /\ UNCHANGED <<lkVars, cmVars, scVars, mpVars, idVars, upVars, auVars,
                   mnVars, nzVars, ftVars, tmVars, qrVars>>

CensusNext ==
    \/ BeginBatch
    \/ \E w \in Workers : StartTask(w)
    \/ \E w \in Workers : CheckCaches(w)
    \/ \E w \in Workers : RateLimitRead(w)
    \/ \E w \in Workers : RateLimitSet(w)
    \/ \E w \in Workers : StoreResponse(w)
    \/ EndBatch
    \/ Tick

\* C22: any two consecutive requests issued through the helper, those of
\* concurrent workers of get_block_groups_batch included, start at least
\* min_delay apart.
C22_RequestsMinDelayApart ==
    \A i \in 1..(Len(ch_requests) - 1) :
        ch_requests[i + 1].at - ch_requests[i].at >= min_delay

\* C23: at most max_workers lookups run at once, and no coordinate key is
\* fetched by two workers within one get_block_groups_batch call.
C23_WorkersOwnDisjointKeys ==
    /\ Cardinality({w \in Workers : ch_workers[w] # None}) <= max_workers
    /\ \A i, j \in 1..Len(ch_requests) :
          (i # j /\ ch_requests[i].call = ch_requests[j].call)
              => ch_requests[i].key # ch_requests[j].key

\* C26: no key is both in the success cache and in the failure set, in
\* every reachable state.
C26_CacheAndFailedDisjoint ==
    DOMAIN _block_group_cache \cap _failed_locations = {}

\* C30: a key in _failed_locations stays there and stays unresolved, a
\* later get_block_groups_batch call does not hand it to the pool, and a
\* later _fetch_single_location call for it returns without a request.
C30_FailedKeyStaysUnresolved ==
    [][/\ \A key \in _failed_locations :
             /\ key \in _failed_locations'
             /\ key \notin DOMAIN _block_group_cache
                    => key \notin DOMAIN _block_group_cache'
       /\ ch_call' # ch_call =>
             \A i \in 1..Len(to_fetch') :
                 cache_key(to_fetch'[i]) \notin _failed_locations
       /\ \A w \in Workers :
             (/\ ch_workers[w] # None
              /\ ch_workers[w][1].pc = "check"
              /\ cache_key(ch_workers[w][1].coord) \in _failed_locations
              /\ ch_workers'[w] # ch_workers[w])
                 => ch_workers'[w] = None /\ ch_requests' = ch_requests]_vars

CensusIdle == ch_pc = "idle" /\ CensusIdleRest

(***************************************************************************)
(* Specifications                                                          *)
(***************************************************************************)
\* Each specification runs one component from its start states and keeps
\* the others at rest.
LinkInit == LinkStart /\ MetricsIdle /\ ScoreIdle /\ MapIdle /\ IdIdle
    /\ UploadIdle /\ ScoreUpdateIdle /\ MainIdle /\ NormIdle
    /\ FetchIdle /\ CensusIdle /\ StepsIdle /\ QueryIdle
SpecLink == LinkInit /\ [][LinkNext]_vars

ScoreInit == LinkIdle /\ MetricsIdle /\ ScoreStart /\ MapIdle /\ IdIdle
    /\ UploadIdle /\ ScoreUpdateIdle /\ MainIdle /\ NormIdle
    /\ FetchIdle /\ CensusIdle /\ StepsIdle /\ QueryIdle
SpecScore == ScoreInit /\ [][ScoreNext]_vars

MetricsInit == LinkIdle /\ MetricsStart /\ ScoreIdle /\ MapIdle /\ IdIdle
    /\ UploadIdle /\ ScoreUpdateIdle /\ MainIdle /\ NormIdle
    /\ FetchIdle /\ CensusIdle /\ StepsIdle /\ QueryIdle
SpecMetrics == MetricsInit /\ [][MetricsNext]_vars

MapInit == LinkIdle /\ MetricsIdle /\ ScoreIdle /\ MapStart /\ IdIdle
    /\ UploadIdle /\ ScoreUpdateIdle /\ MainIdle /\ NormIdle
    /\ FetchIdle /\ CensusIdle /\ StepsIdle /\ QueryIdle
SpecMap == MapInit /\ [][MapNext]_vars

IdInit == LinkIdle /\ MetricsIdle /\ ScoreIdle /\ MapIdle /\ IdStart
    /\ UploadIdle /\ ScoreUpdateIdle /\ MainIdle /\ NormIdle
    /\ FetchIdle /\ CensusIdle /\ StepsIdle /\ QueryIdle
SpecId == IdInit /\ [][IdNext]_vars

ConfigInit ==
    /\ LinkIdle /\ ConfigStart /\ ScoreIdle /\ MapIdle /\ IdIdle
    /\ UploadIdle /\ ScoreUpdateIdle /\ MainIdle /\ NormIdle
    /\ FetchIdle /\ CensusIdle /\ StepsIdle /\ QueryIdle
SpecConfig == ConfigInit /\ [][MetricsNext]_vars

\* A source time that is missing or unparsable.
UnreliableTime(time_str_val) ==
    \/ time_str_val = None
    \/ ~(Len(zfill4(time_str_val)) = 4 /\ isdigit(zfill4(time_str_val)))

\* C19: with a time filter declared, the rows of the NYPD dataset
\* (flagged time-unreliable) all pass, and of any other dataset no row
\* whose source time is missing or unparsable is left by the filter.
C19_UnreliableHourExcluded ==
    (nz_pc = "done" /\ time_filter_hours # None) =>
        IF dataset_id = NYPD
        THEN nz_df # <<>> =>
                metric_crimes_df = {nz_df[k].idx : k \in 1..Len(nz_df)}
        ELSE \A i \in metric_crimes_df : ~UnreliableTime(nz_raw[i].time_str)

\* C20: after the cleaning a row is dropped exactly when its latitude or
\* longitude is no finite number or both are 0, and a row kept has its
\* coordinates as parsed.
C20_DroppedIffInvalidOrOrigin ==
    nz_pc \in {"datetime", "no_coordinates"} =>
        \A i \in 1..Len(nz_raw) :
            LET latitude == to_numeric(nz_raw[i].latitude)
                longitude == to_numeric(nz_raw[i].longitude)
                not_finite == \/ latitude[1] # "num"
                              \/ longitude[1] # "num"
                origin == IsZero(latitude) /\ IsZero(longitude)
                kept == {k \in 1..Len(nz_df) : nz_df[k].idx = i}
            IN /\ (kept = {}) <=> (not_finite \/ origin)
               /\ \A k \in kept : /\ nz_df[k].latitude = latitude
                                  /\ nz_df[k].longitude = longitude

FetchInit ==
    /\ LinkIdle /\ MetricsIdle /\ ScoreIdle /\ MapIdle /\ IdIdle
    /\ UploadIdle /\ ScoreUpdateIdle /\ MainIdle /\ NormIdle
    /\ FetchStart /\ CensusIdle /\ StepsIdle /\ QueryIdle
\* The loops keep running: no step is held back forever. Nothing is assumed
\* about the answers of the remote endpoint.
SpecFetchLive == FetchInit /\ [][FetchNext]_vars /\ WF_vars(FetchNext)

CensusInit ==
    /\ LinkIdle /\ MetricsIdle /\ ScoreIdle /\ MapIdle /\ IdIdle
    /\ UploadIdle /\ ScoreUpdateIdle /\ MainIdle /\ NormIdle
    /\ FetchIdle /\ CensusStart /\ StepsIdle /\ QueryIdle
SpecCensus == CensusInit /\ [][CensusNext]_vars

QueryInit ==
    /\ LinkIdle /\ MetricsIdle /\ ScoreIdle /\ MapIdle /\ IdIdle
    /\ UploadIdle /\ ScoreUpdateIdle /\ MainIdle /\ NormIdle
    /\ FetchIdle /\ CensusIdle /\ StepsIdle /\ QueryStart
SpecQuery == QueryInit /\ [][QueryNext]_vars

StepsInit ==
    /\ LinkIdle /\ MetricsIdle /\ ScoreIdle /\ MapIdle /\ IdIdle
    /\ MainIdle /\ NormIdle /\ FetchIdle /\ CensusIdle /\ StepsStart /\ QueryIdle
SpecSteps == StepsInit /\ [][StepsNext]_vars

NormInit ==
    /\ LinkIdle /\ MetricsIdle /\ ScoreIdle /\ MapIdle /\ IdIdle
    /\ UploadIdle /\ ScoreUpdateIdle /\ MainIdle /\ NormStart
    /\ FetchIdle /\ CensusIdle /\ StepsIdle /\ QueryIdle
SpecNormalize == NormInit /\ [][NormNext]_vars

MainInit ==
    /\ LinkIdle /\ MetricsIdle /\ ScoreIdle /\ MapIdle /\ IdIdle
    /\ UploadIdle /\ ScoreUpdateIdle /\ MainStart /\ NormIdle
    /\ FetchIdle /\ CensusIdle /\ StepsIdle /\ QueryIdle
SpecMain == MainInit /\ [][MainNext]_vars

PersistInit ==
    /\ LinkIdle /\ MetricsIdle /\ ScoreIdle /\ MapIdle /\ IdIdle
    /\ MainIdle /\ NormIdle
    /\ FetchIdle /\ CensusIdle /\ StepsIdle /\ QueryIdle
    /\ \/ UploadStart /\ ScoreUpdateIdle
       \/ UploadIdle /\ ScoreUpdateStart
PersistNext == UploadNext \/ ScoreUpdateNext
SpecPersist == PersistInit /\ [][PersistNext]_vars

====
